---- MODULE Spec2Model ----
(***************************************************************************)
(* Blockchain engine of syfer-core (src/CryptoNoteCore/Blockchain.cpp):    *)
(* block push/pop, the alternative-chains map, chain switching and its     *)
(* rollback, the transaction indexes and the interaction with the          *)
(* transaction pool.                                                       *)
(*                                                                         *)
(* Sizes, amounts and rewards are in scaled units.  A block hash is the    *)
(* tuple of the block's fields (an injective function of its content).    *)
(***************************************************************************)
EXTENDS Integers, Sequences, FiniteSets, TLC

(***************************************************************************)
(* Bounds of the exploration.                                              *)
(***************************************************************************)
\* blocks the engine may hold beyond the genesis block (main chain + alt map)
MaxBlocks == 3
\* checkpoints the daemon may carry
MaxCheckpoints == 1

(***************************************************************************)
(* Program constants (scaled where noted).                                 *)
(***************************************************************************)
DIFFICULTY_TARGET == 120
DIFFICULTY_WINDOW == 720
DIFFICULTY_CUT == 60
DIFFICULTY_LAG == 15
BLOCKCHAIN_TIMESTAMP_CHECK_WINDOW == 30
CRYPTONOTE_MINED_MONEY_UNLOCK_WINDOW == 10
CRYPTONOTE_LOCKED_TX_ALLOWED_DELTA_BLOCKS == 1
\* block size units: one unit stands for 25000 bytes
CRYPTONOTE_BLOCK_GRANTED_FULL_REWARD_ZONE == 4
MAX_BLOCK_SIZE_INITIAL == CRYPTONOTE_BLOCK_GRANTED_FULL_REWARD_ZONE * 10
MAX_BLOCK_SIZE_GROWTH_SPEED_NUMERATOR == 4
MAX_BLOCK_SIZE_GROWTH_SPEED_DENOMINATOR == 262800
\* amounts are in units of one COIN (10^6 atomic units)
COIN == 1000000
START_BLOCK_REWARD == 5
MAX_BLOCK_REWARD == 15
MAX_BLOCK_REWARD_V1 == 6
MAX_BLOCK_REWARD_V2 == 12
FOUNDATION_TRUST == 1000000
REWARD_INCREASE_INTERVAL == 21900
UPGRADE_HEIGHT_V2 == 1
UPGRADE_HEIGHT_V3 == 101
UPGRADE_HEIGHT_V6 == 401
UPGRADE_HEIGHT_V7 == 501
UPGRADE_HEIGHT_V8 == 601
UPGRADE_HEIGHT_V9 == 6000
DEPOSIT_MIN_AMOUNT == 1
\* deposit terms in blocks; the shortest term stands for 5040 blocks
DEPOSIT_MIN_TERM == 2
DEPOSIT_MAX_TERM_V1 == 1296000
DEPOSIT_MIN_TERM_V3 == 21900
DEPOSIT_MAX_TERM_V3 == 262800
DEPOSIT_HEIGHT_V4 == 610
\* the two largest amounts are in units of 10^6 COIN
FOUNDATION_TRUST1 == 800
MONEY_SUPPLY == 9999

NULL_HASH == <<>>

(***************************************************************************)
(* Transactions.  A transaction hash is <<"tx", n>> for the pool           *)
(* transactions of TxTable and <<"cb", blockIndex, reward>> for a          *)
(* coinbase; the body is a function of the hash.                           *)
(***************************************************************************)
KeyInput(k, a) == [type |-> "key", keyImage |-> k, amount |-> a, outputIndex |-> 0, term |-> 0]
MultisignatureInput(a, i, t) == [type |-> "msig", keyImage |-> 0, amount |-> a, outputIndex |-> i, term |-> t]
BaseInput(h) == [type |-> "base", keyImage |-> 0, amount |-> 0, outputIndex |-> h, term |-> 0]
KeyOutput(a) == [type |-> "key", amount |-> a, term |-> 0]
MultisignatureOutput(a, t) == [type |-> "msig", amount |-> a, term |-> t]

\* tx 1 spends key image 1 and creates a multisignature output of amount 5;
\* tx 2 spends that multisignature output;
\* tx 3 spends key image 2 and is larger than any block may be;
\* tx 4 spends key image 1 again (a double spend of tx 1).
TxTable ==
  <<[inputs |-> <<KeyInput(1, 5)>>, outputs |-> <<MultisignatureOutput(5, 0)>>,
     unlockTime |-> 0, size |-> 1],
    [inputs |-> <<MultisignatureInput(5, 0, 0)>>, outputs |-> <<KeyOutput(5)>>,
     unlockTime |-> 0, size |-> 1],
    [inputs |-> <<KeyInput(2, 7)>>, outputs |-> <<KeyOutput(7)>>,
     unlockTime |-> 0, size |-> 40],
    [inputs |-> <<KeyInput(1, 5)>>, outputs |-> <<KeyOutput(5)>>,
     unlockTime |-> 0, size |-> 1]>>

NumTxs == Len(TxTable)
TxIds == 1..NumTxs
TxHash(n) == <<"tx", n>>
TxHashes == {TxHash(n) : n \in TxIds}

COINBASE_SIZE == 1

CoinbaseTx(blockIndex, reward) ==
  [inputs |-> <<BaseInput(blockIndex)>>, outputs |-> <<KeyOutput(reward)>>,
   unlockTime |-> blockIndex + CRYPTONOTE_MINED_MONEY_UNLOCK_WINDOW, size |-> COINBASE_SIZE]

\* a transaction of 150000 bytes that pays a fee of 800000 COIN
FeeTx ==
  [inputs |-> <<KeyInput(3, 800001)>>, outputs |-> <<KeyOutput(1)>>,
   unlockTime |-> 0, size |-> 6]
FeeTxHash == <<"fee", 1>>

\* deposit transactions: the first creates a deposit of 5 COIN with the
\* shortest term; the second withdraws it; the third withdraws it with an
\* input of another term
DepositTxTable ==
  <<[inputs |-> <<KeyInput(4, 5)>>, outputs |-> <<MultisignatureOutput(5, DEPOSIT_MIN_TERM)>>,
     unlockTime |-> 0, size |-> 1],
    [inputs |-> <<MultisignatureInput(5, 0, DEPOSIT_MIN_TERM)>>, outputs |-> <<KeyOutput(5)>>,
     unlockTime |-> 0, size |-> 1],
    [inputs |-> <<MultisignatureInput(5, 0, DEPOSIT_MIN_TERM - 1)>>, outputs |-> <<KeyOutput(5)>>,
     unlockTime |-> 0, size |-> 1]>>
DepositTxHash(n) == <<"dep", n>>

TxBody(h) ==
  IF h[1] = "cb" THEN CoinbaseTx(h[2], h[3])
  ELSE IF h[1] = "fee" THEN FeeTx
  ELSE IF h[1] = "dep" THEN DepositTxTable[h[2]]
  ELSE TxTable[h[2]]

(***************************************************************************)
(* Blocks.                                                                 *)
(***************************************************************************)
Block(prev, idx, ts, work, reward, txs) ==
  [previousBlockHash |-> prev, blockIndex |-> idx, timestamp |-> ts,
   work |-> work, minerReward |-> reward, transactionHashes |-> txs]

get_block_hash(b) ==
  <<b.previousBlockHash, b.blockIndex, b.timestamp, b.work, b.minerReward, b.transactionHashes>>

get_block_height(b) == b.blockIndex

\* the coinbase carries a fresh one-time key, so coinbases of distinct blocks differ
getObjectHashOfBaseTransaction(b) ==
  <<"cb", b.blockIndex, b.minerReward, b.previousBlockHash, b.timestamp, b.transactionHashes>>

GenesisBlock == Block(NULL_HASH, 0, 0, 1, START_BLOCK_REWARD, <<>>)

(***************************************************************************)
(* Small helpers on finite maps and sequences.                             *)
(***************************************************************************)
EmptyMap == [x \in {} |-> 0]
Put(f, k, v) == [x \in (DOMAIN f) \cup {k} |-> IF x = k THEN v ELSE f[x]]
Erase(f, k) == [x \in (DOMAIN f) \ {k} |-> f[x]]
Front(s) == SubSeq(s, 1, Len(s) - 1)
Last(s) == s[Len(s)]
Min(a, b) == IF a < b THEN a ELSE b
Max(a, b) == IF a > b THEN a ELSE b
Range(s) == {s[i] : i \in DOMAIN s}

RECURSIVE InsertSorted(_, _)
InsertSorted(s, x) ==
  IF s = <<>> THEN <<x>>
  ELSE IF x <= Head(s) THEN <<x>> \o s
  ELSE <<Head(s)>> \o InsertSorted(Tail(s), x)

RECURSIVE Sort(_)
Sort(s) == IF s = <<>> THEN <<>> ELSE InsertSorted(Sort(Tail(s)), Head(s))

\* Common::medianValue
medianValue(v) ==
  IF v = <<>> THEN 0
  ELSE LET s == Sort(v)
           n == Len(v) \div 2
       IN IF Len(v) % 2 = 1 THEN s[n + 1] ELSE (s[n] + s[n + 1]) \div 2

(***************************************************************************)
(* The engine state is handled as a record St with one field per member    *)
(* of Blockchain (and the pool); the handlers below are functions on it.   *)
(***************************************************************************)
TransactionIndex(b, t) == [block |-> b, transaction |-> t]

BlockEntry(bl, height, txs, size, cumdiff, coins) ==
  [bl |-> bl, height |-> height, transactions |-> txs, block_cumulative_size |-> size,
   cumulative_difficulty |-> cumdiff, already_generated_coins |-> coins]

NoBvc ==
  [m_added_to_main_chain |-> FALSE, m_verification_failed |-> FALSE,
   m_marked_as_orphaned |-> FALSE, m_already_exists |-> FALSE,
   m_switched_to_alt_chain |-> FALSE]

getCurrentBlockchainHeight(St) == Len(St.m_blocks)

getTailId(St) == IF St.m_blocks = <<>> THEN NULL_HASH ELSE Last(St.m_blockIndex)

BlockIndexHasBlock(St, id) == \E i \in DOMAIN St.m_blockIndex : St.m_blockIndex[i] = id

\* BlockIndex::getBlockHeight: the position of id in the main chain, or -1
BlockIndexGetBlockHeight(St, id) ==
  IF BlockIndexHasBlock(St, id)
  THEN (CHOOSE i \in DOMAIN St.m_blockIndex : St.m_blockIndex[i] = id) - 1
  ELSE -1

haveBlock(St, id) == BlockIndexHasBlock(St, id) \/ id \in DOMAIN St.m_alternative_chains

have_tx_keyimg_as_spent(St, k) == k \in DOMAIN St.m_spent_keys

(***************************************************************************)
(* Checkpoints (class Checkpoints): a map height -> expected block hash.   *)
(***************************************************************************)
is_in_checkpoint_zone(St, height) ==
  /\ DOMAIN St.m_checkpoints # {}
  /\ \E h \in DOMAIN St.m_checkpoints : height <= h

is_a_checkpoint(St, height) == height \in DOMAIN St.m_checkpoints

check_block(St, height, id) ==
  height \in DOMAIN St.m_checkpoints => St.m_checkpoints[height] = id

is_alternative_block_allowed(St, blockchain_height, block_height) ==
  IF block_height = 0 THEN FALSE
  ELSE LET passed == {h \in DOMAIN St.m_checkpoints : h <= blockchain_height}
       IN \A h \in passed : h < block_height

(***************************************************************************)
(* Transaction indexes: pushTransaction / popTransaction.                  *)
(***************************************************************************)
checkMultisignatureInputsDiff(tx) ==
  \A i, j \in DOMAIN tx.inputs :
    (i < j /\ tx.inputs[i].type = "msig" /\ tx.inputs[j].type = "msig")
      => ~(tx.inputs[i].amount = tx.inputs[j].amount
           /\ tx.inputs[i].outputIndex = tx.inputs[j].outputIndex)

\* pushTransaction without the insertion into m_spent_keys (C3 rests on the
\* insertion)
InsertNoSpentKeys(spent, inputs, i, height) == [spent |-> spent, ok |-> TRUE]

\* the loop over the key inputs of pushTransaction: insert every key image,
\* on a failed insert erase the images of the inputs before it
RECURSIVE InsertSpentKeys(_, _, _, _)
InsertSpentKeys(spent, inputs, i, height) ==
  IF i > Len(inputs) THEN [spent |-> spent, ok |-> TRUE]
  ELSE IF inputs[i].type = "key"
  THEN IF inputs[i].keyImage \in DOMAIN spent
       THEN [spent |-> [k \in (DOMAIN spent) \ {inputs[j].keyImage : j \in 1..(i - 1)} |-> spent[k]],
             ok |-> FALSE]
       ELSE InsertSpentKeys(Put(spent, inputs[i].keyImage, height), inputs, i + 1, height)
  ELSE InsertSpentKeys(spent, inputs, i + 1, height)

\* amountOutputs[in.outputIndex].isUsed = flag, for every multisignature input
\* (operator[] of the map creates a missing amount; an index outside the
\* vector is a write outside the container: flagged in g.wild)
RECURSIVE SetUsedFlags(_, _, _, _)
SetUsedFlags(St, inputs, i, flag) ==
  IF i > Len(inputs) THEN St
  ELSE IF inputs[i].type = "msig"
  THEN LET a == inputs[i].amount
           n == inputs[i].outputIndex + 1
           m == IF a \in DOMAIN St.m_multisignatureOutputs
                THEN St.m_multisignatureOutputs
                ELSE Put(St.m_multisignatureOutputs, a, <<>>)
           St1 == IF n <= Len(m[a])
                  THEN [St EXCEPT !.m_multisignatureOutputs =
                          [m EXCEPT ![a] = [m[a] EXCEPT ![n] = [@ EXCEPT !.isUsed = flag]]]]
                  ELSE [St EXCEPT !.m_multisignatureOutputs = m, !.g = [@ EXCEPT !.wild = TRUE]]
       IN SetUsedFlags(St1, inputs, i + 1, flag)
  ELSE SetUsedFlags(St, inputs, i + 1, flag)

\* the loop over the outputs of pushTransaction; output is the 0-based index
RECURSIVE AppendOutputs(_, _, _, _)
AppendOutputs(St, outputs, output, transactionIndex) ==
  IF output >= Len(outputs) THEN St
  ELSE LET o == outputs[output + 1]
           a == o.amount
       IN IF o.type = "key"
          THEN LET cur == IF a \in DOMAIN St.m_outputs THEN St.m_outputs[a] ELSE <<>>
               IN AppendOutputs(
                    [St EXCEPT !.m_outputs =
                       Put(St.m_outputs, a,
                           Append(cur, [transactionIndex |-> transactionIndex, output |-> output]))],
                    outputs, output + 1, transactionIndex)
          ELSE LET cur == IF a \in DOMAIN St.m_multisignatureOutputs
                          THEN St.m_multisignatureOutputs[a] ELSE <<>>
               IN AppendOutputs(
                    [St EXCEPT !.m_multisignatureOutputs =
                       Put(St.m_multisignatureOutputs, a,
                           Append(cur, [transactionIndex |-> transactionIndex,
                                        outputIndex |-> output, isUsed |-> FALSE]))],
                    outputs, output + 1, transactionIndex)

\* Blockchain::pushTransaction; height is block.height
pushTransaction(St, height, transactionHash, transactionIndex) ==
  IF transactionHash \in DOMAIN St.m_transactionMap
  THEN [St |-> St, ok |-> FALSE]
  ELSE LET tx == TxBody(transactionHash)
       IN IF ~checkMultisignatureInputsDiff(tx)
          THEN [St |-> St, ok |-> FALSE]
          ELSE LET ins == InsertSpentKeys(St.m_spent_keys, tx.inputs, 1, height)
               IN IF ~ins.ok
                  THEN [St |-> [St EXCEPT !.m_spent_keys = ins.spent], ok |-> FALSE]
                  ELSE LET St1 == [St EXCEPT
                                     !.m_transactionMap = Put(@, transactionHash, transactionIndex),
                                     !.m_spent_keys = ins.spent]
                           St2 == SetUsedFlags(St1, tx.inputs, 1, TRUE)
                       IN [St |-> AppendOutputs(St2, tx.outputs, 0, transactionIndex), ok |-> TRUE]

\* the loop over the outputs of popTransaction, last output first;
\* k counts the outputs already handled
RECURSIVE RemoveOutputs(_, _, _, _)
RemoveOutputs(St, outputs, k, transactionIndex) ==
  IF k >= Len(outputs) THEN St
  ELSE LET pos == Len(outputs) - 1 - k
           o == outputs[pos + 1]
           a == o.amount
       IN IF o.type = "key"
          THEN IF a \notin DOMAIN St.m_outputs
               THEN RemoveOutputs(St, outputs, k + 1, transactionIndex)
               ELSE LET v == St.m_outputs[a]
                    IN IF \/ v = <<>>
                          \/ Last(v).transactionIndex # transactionIndex
                          \/ Last(v).output # pos
                       THEN RemoveOutputs(St, outputs, k + 1, transactionIndex)
                       ELSE RemoveOutputs(
                              [St EXCEPT !.m_outputs =
                                 IF Len(v) = 1 THEN Erase(St.m_outputs, a)
                                 ELSE Put(St.m_outputs, a, Front(v))],
                              outputs, k + 1, transactionIndex)
          ELSE IF a \notin DOMAIN St.m_multisignatureOutputs
               THEN RemoveOutputs(St, outputs, k + 1, transactionIndex)
               ELSE LET v == St.m_multisignatureOutputs[a]
                    IN IF \/ v = <<>>
                          \/ Last(v).isUsed
                          \/ Last(v).transactionIndex # transactionIndex
                          \/ Last(v).outputIndex # pos
                       THEN RemoveOutputs(St, outputs, k + 1, transactionIndex)
                       ELSE RemoveOutputs(
                              [St EXCEPT !.m_multisignatureOutputs =
                                 IF Len(v) = 1 THEN Erase(St.m_multisignatureOutputs, a)
                                 ELSE Put(St.m_multisignatureOutputs, a, Front(v))],
                              outputs, k + 1, transactionIndex)

\* the key images of a transaction's key inputs
KeyImagesOf(tx) == {tx.inputs[i].keyImage : i \in {j \in DOMAIN tx.inputs : tx.inputs[j].type = "key"}}

\* Blockchain::popTransaction (m_transactionMap.at throws for an unknown hash: g.threw)
popTransaction(St, transactionHash) ==
  IF transactionHash \notin DOMAIN St.m_transactionMap
  THEN [St EXCEPT !.g = [@ EXCEPT !.threw = TRUE]]
  ELSE LET tx == TxBody(transactionHash)
           transactionIndex == St.m_transactionMap[transactionHash]
           St1 == RemoveOutputs(St, tx.outputs, 0, transactionIndex)
           St2 == [St1 EXCEPT !.m_spent_keys =
                     [k \in (DOMAIN St1.m_spent_keys) \ KeyImagesOf(tx) |-> St1.m_spent_keys[k]]]
           St3 == SetUsedFlags(St2, tx.inputs, 1, FALSE)
       IN [St3 EXCEPT !.m_transactionMap = Erase(@, transactionHash)]

\* Blockchain::popTransactions: the transactions of the entry, last first,
\* then the coinbase; txs are the hashes of block.transactions
RECURSIVE popTransactions(_, _)
popTransactions(St, txs) ==
  IF txs = <<>> THEN St
  ELSE popTransactions(popTransaction(St, Last(txs)), Front(txs))

(***************************************************************************)
(* Input validation.  Ring signatures and multisignature signatures are    *)
(* taken to verify; every other check is the code's.                       *)
(***************************************************************************)
CRYPTONOTE_MAX_BLOCK_NUMBER == 500000000

is_tx_spendtime_unlocked(St, unlock_time) ==
  IF unlock_time < CRYPTONOTE_MAX_BLOCK_NUMBER
  THEN getCurrentBlockchainHeight(St) - 1 + CRYPTONOTE_LOCKED_TX_ALLOWED_DELTA_BLOCKS >= unlock_time
  ELSE TRUE

\* validateInput reads m_blocks[block].transactions[transaction] of the output
\* it spends: TRUE when that read is outside the stored blocks
validateInputReadsOutside(St, in) ==
  /\ in.amount \in DOMAIN St.m_multisignatureOutputs
  /\ in.outputIndex < Len(St.m_multisignatureOutputs[in.amount])
  /\ LET usage == St.m_multisignatureOutputs[in.amount][in.outputIndex + 1]
     IN /\ ~usage.isUsed
        /\ \/ usage.transactionIndex.block >= Len(St.m_blocks)
           \/ usage.transactionIndex.transaction >=
                Len(St.m_blocks[usage.transactionIndex.block + 1].transactions)

\* a deposit is never taken to be locked
depositNeverLocked(St, usage, output) == FALSE

\* Blockchain::validateInput(MultisignatureInput): the input spends a locked
\* deposit output
depositIsLocked(St, usage, output) ==
  output.term # 0 /\ usage.transactionIndex.block + output.term > getCurrentBlockchainHeight(St)

\* Blockchain::validateInput(MultisignatureInput)
validateInput(St, in) ==
  IF in.amount \notin DOMAIN St.m_multisignatureOutputs THEN FALSE
  ELSE IF in.outputIndex >= Len(St.m_multisignatureOutputs[in.amount]) THEN FALSE
  ELSE LET usage == St.m_multisignatureOutputs[in.amount][in.outputIndex + 1]
       IN IF usage.isUsed THEN FALSE
          ELSE IF validateInputReadsOutside(St, in) THEN FALSE
          ELSE LET entry == St.m_blocks[usage.transactionIndex.block + 1]
                   outputTransaction == TxBody(entry.transactions[usage.transactionIndex.transaction + 1])
               IN IF ~is_tx_spendtime_unlocked(St, outputTransaction.unlockTime) THEN FALSE
                  ELSE IF usage.outputIndex >= Len(outputTransaction.outputs) THEN FALSE
                  ELSE LET output == outputTransaction.outputs[usage.outputIndex + 1]
                       IN IF output.type # "msig" THEN FALSE
                          ELSE IF in.term # output.term THEN FALSE
                          ELSE IF depositIsLocked(St, usage, output) THEN FALSE
                          ELSE TRUE

\* Blockchain::checkTransactionInputs(tx, tx_prefix_hash, pmax_used_block_height)
RECURSIVE checkTransactionInputsFrom(_, _, _)
checkTransactionInputsFrom(St, inputs, i) ==
  IF i > Len(inputs) THEN TRUE
  ELSE LET txin == inputs[i]
       IN IF txin.type = "key"
          THEN IF have_tx_keyimg_as_spent(St, txin.keyImage) THEN FALSE
               ELSE checkTransactionInputsFrom(St, inputs, i + 1)
          ELSE IF txin.type = "msig"
          THEN IF ~is_in_checkpoint_zone(St, getCurrentBlockchainHeight(St))
                  /\ ~validateInput(St, txin)
               THEN FALSE
               ELSE checkTransactionInputsFrom(St, inputs, i + 1)
          ELSE FALSE

checkTransactionInputs(St, tx) == checkTransactionInputsFrom(St, tx.inputs, 1)

checkTransactionInputsReadsOutside(St, tx) ==
  /\ ~is_in_checkpoint_zone(St, getCurrentBlockchainHeight(St))
  /\ \E i \in DOMAIN tx.inputs :
       tx.inputs[i].type = "msig" /\ validateInputReadsOutside(St, tx.inputs[i])

(***************************************************************************)
(* Currency: difficulty, proof of work, sizes and reward.                  *)
(***************************************************************************)
\* Currency::nextDifficulty(version, blockIndex, timestamps, cumulativeDifficulties)
\* for block major version 2 and 3 (heights below UPGRADE_HEIGHT_V4) with
\* ZAWY_DIFFICULTY_FIX set: low / timeSpan
nextDifficulty(timestamps_o, cumulativeDifficulties_o) ==
  LET length == Min(Len(timestamps_o), DIFFICULTY_WINDOW)
      timestamps == Sort(SubSeq(timestamps_o, 1, length))
      cumulativeDifficulties == SubSeq(cumulativeDifficulties_o, 1, length)
  IN IF length <= 1 THEN 1
     ELSE LET cutBegin == IF length <= DIFFICULTY_WINDOW - 2 * DIFFICULTY_CUT THEN 0
                          ELSE (length - (DIFFICULTY_WINDOW - 2 * DIFFICULTY_CUT) + 1) \div 2
              cutEnd == IF length <= DIFFICULTY_WINDOW - 2 * DIFFICULTY_CUT THEN length
                        ELSE cutBegin + (DIFFICULTY_WINDOW - 2 * DIFFICULTY_CUT)
              span == timestamps[cutEnd] - timestamps[cutBegin + 1]
              timeSpan == IF span = 0 THEN 1 ELSE span
              totalWork == cumulativeDifficulties[cutEnd] - cumulativeDifficulties[cutBegin + 1]
              low == totalWork * DIFFICULTY_TARGET
          IN low \div timeSpan

\* Currency::difficultyBlocksCountByBlockVersion below block major version 4
difficultyBlocksCount == DIFFICULTY_WINDOW + DIFFICULTY_LAG

\* Blockchain::getDifficultyForNextBlock
getDifficultyForNextBlock(St) ==
  LET size == Len(St.m_blocks)
      offset0 == size - Min(size, difficultyBlocksCount)
      offset == IF offset0 = 0 THEN 1 ELSE offset0
      timestamps == [i \in 1..(size - offset) |-> St.m_blocks[offset + i].bl.timestamp]
      commulative_difficulties ==
        [i \in 1..(size - offset) |-> St.m_blocks[offset + i].cumulative_difficulty]
  IN IF size <= offset THEN nextDifficulty(<<>>, <<>>)
     ELSE nextDifficulty(timestamps, commulative_difficulties)

\* Currency::checkProofOfWork: b.work is the largest difficulty the block's
\* long hash satisfies
checkProofOfWork(b, currentDifficulty) == b.work >= currentDifficulty

\* Currency::maxBlockCumulativeSize
maxBlockCumulativeSize(height) ==
  MAX_BLOCK_SIZE_INITIAL
    + (height * MAX_BLOCK_SIZE_GROWTH_SPEED_NUMERATOR) \div MAX_BLOCK_SIZE_GROWTH_SPEED_DENOMINATOR

\* Blockchain::checkCumulativeBlockSize
checkCumulativeBlockSize(cumulativeBlockSize, height) ==
  ~(cumulativeBlockSize > maxBlockCumulativeSize(height))

\* Blockchain::check_block_timestamp
check_block_timestamp(timestamps, b) ==
  IF Len(timestamps) < BLOCKCHAIN_TIMESTAMP_CHECK_WINDOW THEN TRUE
  ELSE ~(b.timestamp < medianValue(timestamps))

\* Blockchain::check_block_timestamp_main (the clock is ahead of every timestamp)
check_block_timestamp_main(St, b) ==
  LET size == Len(St.m_blocks)
      offset == IF size <= BLOCKCHAIN_TIMESTAMP_CHECK_WINDOW THEN 0
                ELSE size - BLOCKCHAIN_TIMESTAMP_CHECK_WINDOW
  IN check_block_timestamp([i \in 1..(size - offset) |-> St.m_blocks[offset + i].bl.timestamp], b)

\* uint64_t amounts beyond the range of the integers of the model checker:
\* <<m, c>> with 0 <= c < 10^6 stands for m * 10^6 + c COIN
Amount(m, c) == <<m, c>>
AmountOfCoins(n) == Amount(n \div COIN, n % COIN)
CoinsOfAmount(a) == a[1] * COIN + a[2]
AmountLeq(a, b) == a[1] < b[1] \/ (a[1] = b[1] /\ a[2] <= b[2])
AmountMin(a, b) == IF AmountLeq(a, b) THEN a ELSE b
\* a - b for b <= a
AmountMinus(a, b) ==
  IF a[2] >= b[2] THEN Amount(a[1] - b[1], a[2] - b[2])
  ELSE Amount(a[1] - b[1] - 1, a[2] + COIN - b[2])
AmountTimes(a, k) == Amount(a[1] * k + (a[2] * k) \div COIN, (a[2] * k) % COIN)

\* Currency::m_moneySupply
m_moneySupply == Amount(MONEY_SUPPLY, 0)

\* Currency::REWARD_INCREASING_FACTOR: the entry for the heights up to
\* UPGRADE_HEIGHT_V8, all of which lie in the first REWARD_INCREASE_INTERVAL
REWARD_INCREASING_FACTOR == <<0>>

\* Currency::baseRewardFunction: the last std::min
ClampedReward(base_reward, alreadyGeneratedCoins) ==
  AmountMin(base_reward, AmountMinus(m_moneySupply, alreadyGeneratedCoins))

\* Currency::baseRewardFunction
baseRewardFunction(alreadyGeneratedCoins, height) ==
  IF height = 56450 THEN Amount(FOUNDATION_TRUST1, 0)
  ELSE IF height = 59215 THEN AmountTimes(Amount(FOUNDATION_TRUST1, 0), 10)
  ELSE IF height >= 1 /\ height < 101 THEN AmountOfCoins(FOUNDATION_TRUST)
  ELSE LET base_reward ==
             IF height > UPGRADE_HEIGHT_V9 THEN MAX_BLOCK_REWARD_V2
             ELSE IF height > UPGRADE_HEIGHT_V8 THEN MAX_BLOCK_REWARD_V1
             ELSE START_BLOCK_REWARD
                    + REWARD_INCREASING_FACTOR[height \div REWARD_INCREASE_INTERVAL + 1]
       IN ClampedReward(AmountOfCoins(Min(base_reward, MAX_BLOCK_REWARD)),
                        alreadyGeneratedCoins)

\* getPenalizedAmount
getPenalizedAmount(amount, medianSize, currentBlockSize) ==
  IF amount = 0 \/ currentBlockSize <= medianSize THEN amount
  ELSE (amount * currentBlockSize * (2 * medianSize - currentBlockSize))
         \div (medianSize * medianSize)

RECURSIVE SumAmounts(_)
SumAmounts(items) == IF items = <<>> THEN 0 ELSE Head(items).amount + SumAmounts(Tail(items))

\* Currency::getTransactionFee (the deposit interest of the amounts and terms
\* of the transactions below is less than one COIN: none)
getTransactionFee(tx) ==
  LET i == SumAmounts(tx.inputs)
      o == SumAmounts(tx.outputs)
  IN IF i < o THEN 0 ELSE i - o

\* Currency::getBlockReward
getBlockReward(medianSize0, currentBlockSize, alreadyGeneratedCoins, fee, height) ==
  LET baseReward == CoinsOfAmount(baseRewardFunction(AmountOfCoins(alreadyGeneratedCoins), height))
      medianSize == Max(medianSize0, CRYPTONOTE_BLOCK_GRANTED_FULL_REWARD_ZONE)
      penalizedBaseReward == getPenalizedAmount(baseReward, medianSize, currentBlockSize)
      penalizedFee == getPenalizedAmount(fee, medianSize, currentBlockSize)
  IN [ok |-> ~(currentBlockSize > 2 * medianSize),
      emissionChange |-> penalizedBaseReward - (fee - penalizedFee),
      reward |-> penalizedBaseReward + penalizedFee]

CRYPTONOTE_REWARD_BLOCKS_WINDOW == 100

\* Blockchain::get_last_n_blocks_sizes
get_last_n_blocks_sizes(St, count) ==
  LET size == Len(St.m_blocks)
      start == size - Min(size, count)
  IN [i \in 1..(size - start) |-> St.m_blocks[start + i].block_cumulative_size]

\* Blockchain::validate_miner_transaction
validate_miner_transaction(St, b, height, cumulativeBlockSize, alreadyGeneratedCoins, fee) ==
  LET minerReward == SumAmounts(CoinbaseTx(b.blockIndex, b.minerReward).outputs)
      blocksSizeMedian == medianValue(get_last_n_blocks_sizes(St, CRYPTONOTE_REWARD_BLOCKS_WINDOW))
      r == getBlockReward(blocksSizeMedian, cumulativeBlockSize, alreadyGeneratedCoins, fee, height)
  IN [ok |-> /\ r.ok
             /\ ~(minerReward > r.reward /\ (minerReward - r.reward) > 10 \div COIN)
             /\ ~(minerReward < r.reward),
      emissionChange |-> r.emissionChange]

\* Blockchain::prevalidate_miner_transaction
prevalidate_miner_transaction(b, height) ==
  LET cb == CoinbaseTx(b.blockIndex, b.minerReward)
  IN /\ Len(cb.inputs) = 1
     /\ cb.inputs[1].type = "base"
     /\ cb.inputs[1].outputIndex = height
     /\ cb.unlockTime = height + CRYPTONOTE_MINED_MONEY_UNLOCK_WINDOW

\* Currency::validateOutput(amount, MultisignatureOutput, height)
validateOutput(amount, output, height) ==
  IF output.term # 0
  THEN IF height > DEPOSIT_HEIGHT_V4
          /\ (\/ output.term < DEPOSIT_MIN_TERM_V3
              \/ output.term > DEPOSIT_MAX_TERM_V3
              \/ output.term % DEPOSIT_MIN_TERM_V3 # 0)
       THEN FALSE
       ELSE IF ~(height > DEPOSIT_HEIGHT_V4)
               /\ (output.term < DEPOSIT_MIN_TERM \/ output.term > DEPOSIT_MAX_TERM_V1)
       THEN FALSE
       ELSE ~(amount < DEPOSIT_MIN_AMOUNT)
  ELSE TRUE

\* check_tx_outputs: every output carries a positive amount, and a
\* multisignature output is one Currency::validateOutput accepts
check_tx_outputs(tx, height) ==
  \A i \in DOMAIN tx.outputs :
    /\ tx.outputs[i].amount > 0
    /\ tx.outputs[i].type = "msig" => validateOutput(tx.outputs[i].amount, tx.outputs[i], height)

(***************************************************************************)
(* Transaction pool (tx_memory_pool), as far as the engine uses it: the    *)
(* set of the hashes of the pooled transactions.                           *)
(***************************************************************************)
\* tx_memory_pool::take_tx
take_tx(St, id) ==
  IF id \in St.m_tx_pool
  THEN [St |-> [St EXCEPT !.m_tx_pool = @ \ {id}], ok |-> TRUE]
  ELSE [St |-> St, ok |-> FALSE]

\* the key images claimed by the transactions of the pool
PoolKeyImages(St) == UNION {KeyImagesOf(TxBody(h)) : h \in St.m_tx_pool}

\* tx_memory_pool::add_tx
add_tx(St, id, keptByBlock) ==
  IF id \in St.m_tx_pool THEN [St |-> St, ok |-> FALSE]
  ELSE IF ~keptByBlock /\ ~checkTransactionInputs(St, TxBody(id)) THEN [St |-> St, ok |-> FALSE]
  ELSE IF ~keptByBlock /\ KeyImagesOf(TxBody(id)) \cap PoolKeyImages(St) # {}
  THEN [St |-> St, ok |-> FALSE]
  ELSE [St |-> [St EXCEPT !.m_tx_pool = @ \cup {id}], ok |-> TRUE]

\* the transactions are not handed back (C9 rests on saveTransactions)
SaveNoTransactions(St, transactions) == St

\* Blockchain::saveTransactions: the transactions go back to the pool, last
\* first; a refused add_tx throws (g.threw) and ends the loop
RECURSIVE saveTransactions(_, _)
RECURSIVE saveTransactionsAdded(_, _, _)
saveTransactionsAdded(St, transactions, r) ==
  IF r.ok THEN saveTransactions(r.St, Front(transactions))
  ELSE [St EXCEPT !.g = [@ EXCEPT !.threw = TRUE]]

saveTransactions(St, transactions) ==
  IF transactions = <<>> THEN St
  ELSE saveTransactionsAdded(St, transactions, add_tx(St, Last(transactions), TRUE))

\* Blockchain::loadTransactions: take every listed transaction from the
\* pool; on the first miss put the taken ones back and fail
RECURSIVE loadTransactionsFrom(_, _, _)
loadTransactionsFrom(St, transactionHashes, i) ==
  IF i > Len(transactionHashes) THEN [St |-> St, ok |-> TRUE]
  ELSE LET r == take_tx(St, transactionHashes[i])
       IN IF r.ok THEN loadTransactionsFrom(r.St, transactionHashes, i + 1)
          ELSE [St |-> saveTransactions(St, SubSeq(transactionHashes, 1, i - 1)), ok |-> FALSE]

loadTransactions(St, block) == loadTransactionsFrom(St, block.transactionHashes, 1)

(***************************************************************************)
(* pushBlock.                                                              *)
(***************************************************************************)
\* BlockchainMessage of a NewBlockMessage, a NewAlternativeBlockMessage or a
\* ChainSwitchMessage: its type and the hashes it carries
NewBlockMessage(hash) == [type |-> "NEW_BLOCK_MESSAGE", hashes |-> <<hash>>]
NewAlternativeBlockMessage(hash) == [type |-> "NEW_ALTERNATIVE_BLOCK_MESSAGE", hashes |-> <<hash>>]
ChainSwitchMessage(hashes) == [type |-> "CHAIN_SWITCH_MESSAGE", hashes |-> hashes]

\* sendMessage that reaches the first registered queue only
sendMessageToFirstQueue(St, message) ==
  [St EXCEPT !.m_messageQueueList =
     [q \in DOMAIN @ |-> IF \A p \in DOMAIN @ : q <= p THEN Append(@[q], message) ELSE @[q]]]

\* Blockchain::sendMessage
sendMessage(St, message) ==
  [St EXCEPT !.m_messageQueueList = [q \in DOMAIN @ |-> Append(@[q], message)]]

Fail(St, bvc, failed) ==
  [St |-> St, ok |-> FALSE,
   bvc |-> IF failed THEN [bvc EXCEPT !.m_verification_failed = TRUE] ELSE bvc]

\* the loop of pushBlock over the listed transactions; pushed holds the hashes
\* of block.transactions (the coinbase first)
RECURSIVE PushBlockTransactions(_, _, _, _, _)
PushBlockTransactions(St, height, transactionHashes, i, pushed) ==
  IF i > Len(transactionHashes) THEN [St |-> St, ok |-> TRUE, pushed |-> pushed]
  ELSE LET tx_id == transactionHashes[i]
           tx == TxBody(tx_id)
           outside == checkTransactionInputsReadsOutside(St, tx)
           St0 == IF outside THEN [St EXCEPT !.g = [@ EXCEPT !.ub = TRUE]] ELSE St
           isTransactionValid ==
             /\ IF outside THEN St.g.oracle ELSE checkTransactionInputs(St, tx)
             /\ check_tx_outputs(tx, height)
       IN IF ~isTransactionValid
          THEN [St |-> popTransactions(St0, pushed), ok |-> FALSE, pushed |-> pushed]
          ELSE PushBlockTransactions(
                 pushTransaction(St0, height, tx_id, TransactionIndex(height, i)).St,
                 height, transactionHashes, i + 1, Append(pushed, tx_id))

RECURSIVE SumSizes(_)
SumSizes(hashes) == IF hashes = <<>> THEN 0 ELSE TxBody(Head(hashes)).size + SumSizes(Tail(hashes))

RECURSIVE SumFees(_)
SumFees(hashes) ==
  IF hashes = <<>> THEN 0 ELSE getTransactionFee(TxBody(Head(hashes))) + SumFees(Tail(hashes))

\* the deposit change of a block: amounts of the created multisignature
\* outputs of term > 0 minus those of the spent ones
RECURSIVE DepositOf(_)
DepositOf(items) ==
  IF items = <<>> THEN 0
  ELSE (IF Head(items).type = "msig" /\ Head(items).term > 0 THEN Head(items).amount ELSE 0)
       + DepositOf(Tail(items))

RECURSIVE BlockDeposit(_)
BlockDeposit(hashes) ==
  IF hashes = <<>> THEN 0
  ELSE DepositOf(TxBody(Head(hashes)).outputs) - DepositOf(TxBody(Head(hashes)).inputs)
       + BlockDeposit(Tail(hashes))

\* Blockchain::pushToDepositIndex
pushToDepositIndex(St, block, interest) ==
  [St EXCEPT !.m_depositIndex =
     Append(@, [deposit |-> BlockDeposit(block.transactions), interest |-> interest])]

\* Blockchain::pushBlock(const BlockEntry &)
pushBlockEntry(St, block) ==
  [St EXCEPT !.m_blocks = Append(@, block),
             !.m_blockIndex = Append(@, get_block_hash(block.bl))]

\* the cumulative difficulty of the tip is not added
cumulativeDifficultyWithoutPrevious(St, currentDifficulty) == currentDifficulty

\* pushBlock(blockData, transactions, id, bvc): block.cumulative_difficulty
cumulativeDifficultyOfNextBlock(St, currentDifficulty) ==
  currentDifficulty
    + (IF St.m_blocks = <<>> THEN 0 ELSE Last(St.m_blocks).cumulative_difficulty)

\* the emission change of the block is subtracted
generatedCoinsLessEmission(already_generated_coins, emissionChange, interestSummary) ==
  already_generated_coins - emissionChange + interestSummary

\* pushBlock(blockData, transactions, id, bvc): block.already_generated_coins
generatedCoinsOfNextBlock(already_generated_coins, emissionChange, interestSummary) ==
  already_generated_coins + emissionChange + interestSummary

\* pushBlock(blockData, transactions, id, bvc), last part: the reward is
\* validated (v), then the entry is appended
pushBlockValidated(St, r, blockData, bvc, currentDifficulty, cumulative_block_size, v) ==
  IF ~v.ok THEN Fail(popTransactions(r.St, r.pushed), bvc, TRUE)
  ELSE
    LET interestSummary == 0
        already_generated_coins ==
          IF St.m_blocks = <<>> THEN 0 ELSE Last(St.m_blocks).already_generated_coins
        block ==
          BlockEntry(blockData, Len(St.m_blocks), r.pushed, cumulative_block_size,
                     cumulativeDifficultyOfNextBlock(St, currentDifficulty),
                     generatedCoinsOfNextBlock(already_generated_coins, v.emissionChange,
                                               interestSummary))
    IN [St |-> pushToDepositIndex(pushBlockEntry(r.St, block), block, interestSummary),
        ok |-> TRUE,
        bvc |-> [bvc EXCEPT !.m_added_to_main_chain = TRUE]]

\* pushBlock(blockData, transactions, id, bvc), after the loop over the
\* transactions (r): the cumulative size and the miner transaction
pushBlockPushed(St, r, blockData, bvc, currentDifficulty, cumulative_block_size) ==
  IF ~r.ok THEN Fail(r.St, bvc, TRUE)
  ELSE IF ~checkCumulativeBlockSize(cumulative_block_size, Len(St.m_blocks))
  THEN Fail(r.St, bvc, TRUE)
  ELSE pushBlockValidated(
         St, r, blockData, bvc, currentDifficulty, cumulative_block_size,
         validate_miner_transaction(
           St, blockData, Len(St.m_blocks), cumulative_block_size,
           IF St.m_blocks = <<>> THEN 0 ELSE Last(St.m_blocks).already_generated_coins,
           SumFees(blockData.transactionHashes)))

\* pushBlock(blockData, transactions, id, bvc), once the difficulty is known:
\* checkpoint or proof of work, the miner transaction's form, the transactions
pushBlockAtDifficulty(St, blockData, id, bvc, currentDifficulty) ==
  IF currentDifficulty = 0 THEN Fail(St, bvc, FALSE)
  ELSE IF is_in_checkpoint_zone(St, getCurrentBlockchainHeight(St))
          /\ ~check_block(St, getCurrentBlockchainHeight(St), id)
  THEN Fail(St, bvc, TRUE)
  ELSE IF ~is_in_checkpoint_zone(St, getCurrentBlockchainHeight(St))
          /\ ~checkProofOfWork(blockData, currentDifficulty)
  THEN Fail(St, bvc, TRUE)
  ELSE IF ~prevalidate_miner_transaction(blockData, Len(St.m_blocks)) THEN Fail(St, bvc, TRUE)
  ELSE pushBlockPushed(
         St,
         PushBlockTransactions(
           pushTransaction(St, Len(St.m_blocks), getObjectHashOfBaseTransaction(blockData),
                           TransactionIndex(Len(St.m_blocks), 0)).St,
           Len(St.m_blocks), blockData.transactionHashes, 1,
           <<getObjectHashOfBaseTransaction(blockData)>>),
         blockData, bvc, currentDifficulty,
         COINBASE_SIZE + SumSizes(blockData.transactionHashes))

\* Blockchain::pushBlock(blockData, transactions, id, bvc); transactions are
\* the bodies of blockData.transactionHashes
pushBlockWithTransactions(St, blockData, id, bvc) ==
  IF BlockIndexHasBlock(St, id) THEN Fail(St, bvc, TRUE)
  ELSE IF blockData.previousBlockHash # getTailId(St) THEN Fail(St, bvc, TRUE)
  ELSE IF ~check_block_timestamp_main(St, blockData) THEN Fail(St, bvc, TRUE)
  ELSE pushBlockAtDifficulty(St, blockData, id, bvc, getDifficultyForNextBlock(St))

\* pushBlock(blockData, id, bvc, height), last part: a failed push (r) hands
\* the transactions back to the pool (g.restored: there were some)
pushBlockSaved(r, blockData) ==
  IF ~r.ok
  THEN [r EXCEPT !.St =
          saveTransactions(
            [r.St EXCEPT !.g = [@ EXCEPT !.restored =
                                  @ \/ blockData.transactionHashes # <<>>]],
            blockData.transactionHashes)]
  ELSE r

\* pushBlock(blockData, id, bvc, height), once the transactions are taken
\* from the pool (l)
pushBlockLoaded(l, blockData, id, bvc) ==
  IF ~l.ok THEN Fail(l.St, bvc, TRUE)
  ELSE pushBlockSaved(pushBlockWithTransactions(l.St, blockData, id, bvc), blockData)

\* the record of a call of pushBlock(blockData, id, bvc, height) that began
\* with the pool of St and ended with r: g.poolKept turns FALSE if the call
\* failed and left another pool
pushBlockObserved(St, r) ==
  [r EXCEPT !.St = [@ EXCEPT !.g = [@ EXCEPT !.poolKept =
                                      @ /\ (r.ok \/ r.St.m_tx_pool = St.m_tx_pool)]]]

\* Blockchain::pushBlock(blockData, id, bvc, height)
pushBlock(St, blockData, id, bvc) ==
  pushBlockObserved(St, pushBlockLoaded(loadTransactions(St, blockData), blockData, id, bvc))

\* popBlock that leaves the spent keys as they are
popBlockKeepsSpentKeys(St) ==
  IF St.m_blocks = <<>> THEN St
  ELSE LET back == Last(St.m_blocks)
           St1 == saveTransactions(St, Tail(back.transactions))
           St2 == popTransactions(St1, back.transactions)
       IN [St2 EXCEPT !.m_spent_keys = St.m_spent_keys,
                      !.m_depositIndex = IF @ = <<>> THEN @ ELSE Front(@),
                      !.m_blocks = Front(@),
                      !.m_blockIndex = Front(@)]

\* Blockchain::popBlock
popBlock(St) ==
  IF St.m_blocks = <<>> THEN St
  ELSE LET back == Last(St.m_blocks)
           St1 == saveTransactions(St, Tail(back.transactions))
           St2 == popTransactions(St1, back.transactions)
       IN [St2 EXCEPT !.m_depositIndex = IF @ = <<>> THEN @ ELSE Front(@),
                      !.m_blocks = Front(@),
                      !.m_blockIndex = Front(@)]

\* Blockchain::removeLastBlock
removeLastBlock(St) ==
  IF St.m_blocks = <<>> THEN St
  ELSE LET St1 == popTransactions(St, Last(St.m_blocks).transactions)
       IN [St1 EXCEPT !.m_blocks = Front(@), !.m_blockIndex = Front(@)]

\* Blockchain::rollbackBlockchainTo
RECURSIVE rollbackBlockchainTo(_, _)
rollbackBlockchainTo(St, height) ==
  IF height + 1 < Len(St.m_blocks) THEN rollbackBlockchainTo(removeLastBlock(St), height) ELSE St

(***************************************************************************)
(* Alternative chains, chain switching and its rollback.                   *)
(***************************************************************************)
\* an entry of m_alternative_chains (value-initialized but for bl, height
\* and cumulative_difficulty)
AltEntry(bl, height, cumdiff) == BlockEntry(bl, height, <<>>, 0, cumdiff, 0)

\* Checkpoints::load_checkpoints_from_dns: the records the DNS answers with
\* (g.dns) are added at the heights that carry no checkpoint yet
load_checkpoints_from_dns(St) ==
  [St EXCEPT !.m_checkpoints =
     [h \in (DOMAIN St.m_checkpoints) \cup (DOMAIN St.g.dns) |->
        IF h \in DOMAIN St.m_checkpoints THEN St.m_checkpoints[h] ELSE St.g.dns[h]]]

\* getTransactions(hashes, txs, missed, checkTxPool = true): a transaction is
\* found in the transaction map or in the pool
getBlockCumulativeSize(St, block) ==
  COINBASE_SIZE
    + SumSizes(SelectSeq(block.transactionHashes,
                         LAMBDA h : h \in DOMAIN St.m_transactionMap \/ h \in St.m_tx_pool))

\* the loop of handle_alternative_block that walks m_alternative_chains from
\* the previous block back to the main chain: front -> main chain
RECURSIVE BuildAltChain(_, _)
BuildAltChain(St, hash) ==
  IF hash \notin DOMAIN St.m_alternative_chains THEN <<>>
  ELSE Append(BuildAltChain(St, St.m_alternative_chains[hash].bl.previousBlockHash), hash)

\* Blockchain::complete_timestamps_vector
RECURSIVE CompleteFrom(_, _, _, _)
CompleteFrom(St, start_top_height, stop_offset, timestamps) ==
  LET ts == Append(timestamps, St.m_blocks[start_top_height + 1].bl.timestamp)
  IN IF start_top_height = 0 THEN ts
     ELSE IF start_top_height - 1 = stop_offset THEN ts
     ELSE CompleteFrom(St, start_top_height - 1, stop_offset, ts)

complete_timestamps_vector(St, start_top_height, timestamps) ==
  IF Len(timestamps) >= BLOCKCHAIN_TIMESTAMP_CHECK_WINDOW THEN timestamps
  ELSE IF ~(start_top_height < Len(St.m_blocks)) THEN timestamps
  ELSE LET need_elements == BLOCKCHAIN_TIMESTAMP_CHECK_WINDOW - Len(timestamps)
           stop_offset == IF start_top_height > need_elements
                          THEN start_top_height - need_elements ELSE 0
       IN CompleteFrom(St, start_top_height, stop_offset, timestamps)

\* Blockchain::get_next_difficulty_for_alternative_chain
get_next_difficulty_for_alternative_chain(St, alt_chain, bei_height) ==
  LET n == Len(alt_chain)
      altTimestamps == [i \in 1..n |-> St.m_alternative_chains[alt_chain[i]].bl.timestamp]
      altDifficulties ==
        [i \in 1..n |-> St.m_alternative_chains[alt_chain[i]].cumulative_difficulty]
  IN IF n < difficultyBlocksCount
     THEN LET main_chain_stop_offset ==
                IF n > 0 THEN St.m_alternative_chains[alt_chain[1]].height ELSE bei_height
              main_chain_count ==
                Min(difficultyBlocksCount - Min(difficultyBlocksCount, n), main_chain_stop_offset)
              start0 == main_chain_stop_offset - main_chain_count
              main_chain_start_offset == IF start0 = 0 THEN 1 ELSE start0
              k == IF main_chain_start_offset < main_chain_stop_offset
                   THEN main_chain_stop_offset - main_chain_start_offset ELSE 0
              mainTimestamps ==
                [i \in 1..k |-> St.m_blocks[main_chain_start_offset + i].bl.timestamp]
              mainDifficulties ==
                [i \in 1..k |-> St.m_blocks[main_chain_start_offset + i].cumulative_difficulty]
          IN IF ~(n + k <= difficultyBlocksCount) THEN 0
             ELSE nextDifficulty(mainTimestamps \o altTimestamps,
                                 mainDifficulties \o altDifficulties)
     ELSE nextDifficulty(SubSeq(altTimestamps, n - difficultyBlocksCount + 1, n),
                         SubSeq(altDifficulties, n - difficultyBlocksCount + 1, n))

\* the blocks of the main chain at the 0-based heights from..(size - 1)
MainBlocksFrom(St, from) == [i \in 1..(Len(St.m_blocks) - from) |-> St.m_blocks[from + i].bl]

\* no transaction counts as listed (C7 rests on the comparison of the lists)
ListedNothing(blocks) == {}

RECURSIVE ListedHashes(_)
ListedHashes(blocks) ==
  IF blocks = <<>> THEN {} ELSE Range(Head(blocks).transactionHashes) \cup ListedHashes(Tail(blocks))

\* popBlock, n times
RECURSIVE popBlocks(_, _)
popBlocks(St, n) == IF n <= 0 THEN St ELSE popBlocks(popBlock(St), n - 1)

\* the loop of rollback_blockchain_switching that pushes the original chain;
\* r is the result of the push of the first block
RECURSIVE PushOriginalChain(_, _)
RECURSIVE PushOriginalChainPushed(_, _)
PushOriginalChainPushed(r, original_chain) ==
  IF ~(r.ok /\ r.bvc.m_added_to_main_chain) THEN [St |-> r.St, ok |-> FALSE]
  ELSE PushOriginalChain(r.St, Tail(original_chain))

PushOriginalChain(St, original_chain) ==
  IF original_chain = <<>> THEN [St |-> St, ok |-> TRUE]
  ELSE PushOriginalChainPushed(
         pushBlock(St, Head(original_chain), get_block_hash(Head(original_chain)), NoBvc),
         original_chain)

\* the end of rollback_blockchain_switching: r is the result of the pushes
rollbackResult(r) ==
  [St |-> [r.St EXCEPT !.g = [@ EXCEPT !.rollback =
                                IF r.ok /\ @ # "failed" THEN "ok" ELSE "failed"]],
   ok |-> r.ok]

\* Blockchain::rollback_blockchain_switching
rollback_blockchain_switching(St, original_chain, rollback_height) ==
  rollbackResult(
    PushOriginalChain(popBlocks(St, Len(St.m_blocks) - rollback_height), original_chain))

\* a chain switch that connects no block (C6 rests on the pushes)
ConnectNoBlock(St, alt_chain, i) == [St |-> St, ok |-> TRUE, at |-> i]

\* the loop of switch_to_alternative_blockchain that connects the
\* alternative chain: at is the position of the block whose push failed;
\* r is the result of the push of block i
RECURSIVE ConnectAltChain(_, _, _)
RECURSIVE ConnectAltChainPushed(_, _, _)
ConnectAltChainPushed(r, alt_chain, i) ==
  IF ~r.ok \/ ~r.bvc.m_added_to_main_chain THEN [St |-> r.St, ok |-> FALSE, at |-> i]
  ELSE ConnectAltChain(r.St, alt_chain, i + 1)

ConnectAltChain(St, alt_chain, i) ==
  IF i > Len(alt_chain) THEN [St |-> St, ok |-> TRUE, at |-> i]
  ELSE ConnectAltChainPushed(
         pushBlock(St, St.m_alternative_chains[alt_chain[i]].bl,
                   get_block_hash(St.m_alternative_chains[alt_chain[i]].bl), NoBvc),
         alt_chain, i)

EraseAlt(St, hashes) ==
  [St EXCEPT !.m_alternative_chains = [h \in (DOMAIN @) \ hashes |-> @[h]]]

RECURSIVE handle_alternative_block(_, _, _, _, _)
RECURSIVE handleAlternativeBlockChecked(_, _, _, _, _, _, _, _)
RECURSIVE switch_to_alternative_blockchain(_, _, _)
RECURSIVE switchConnected(_, _, _, _, _)
RECURSIVE PushOldChainAsAlternative(_, _)
RECURSIVE PushOldChainAsAlternativeHandled(_, _)

\* the loop of switch_to_alternative_blockchain that hands the disconnected
\* blocks to handle_alternative_block; r is the result for the first block
PushOldChainAsAlternativeHandled(r, disconnected_chain) ==
  IF ~r.ok THEN [St |-> r.St, ok |-> FALSE]
  ELSE PushOldChainAsAlternative(r.St, Tail(disconnected_chain))

PushOldChainAsAlternative(St, disconnected_chain) ==
  IF disconnected_chain = <<>> THEN [St |-> St, ok |-> TRUE]
  ELSE PushOldChainAsAlternativeHandled(
         handle_alternative_block(St, Head(disconnected_chain),
                                  get_block_hash(Head(disconnected_chain)), NoBvc, FALSE),
         disconnected_chain)

\* the end of switch_to_alternative_blockchain without the erasure of the
\* connected blocks from the alternative blocks
switchFinishedKeepsAlternatives(o, alt_chain, disconnected_chain, split_height) ==
  IF ~o.ok
  THEN [St |-> rollback_blockchain_switching(o.St, disconnected_chain, split_height).St,
        ok |-> FALSE]
  ELSE [St |-> sendMessage(o.St,
                           ChainSwitchMessage(
                             <<o.St.m_alternative_chains[alt_chain[1]].bl.previousBlockHash>>
                               \o alt_chain)),
        ok |-> TRUE]

\* switch_to_alternative_blockchain, end: o is the result of handing the
\* disconnected chain to the alternative blocks
switchFinished(o, alt_chain, disconnected_chain, split_height) ==
  IF ~o.ok
  THEN [St |-> rollback_blockchain_switching(o.St, disconnected_chain, split_height).St,
        ok |-> FALSE]
  ELSE [St |-> sendMessage(EraseAlt(o.St, Range(alt_chain)),
                           ChainSwitchMessage(
                             <<o.St.m_alternative_chains[alt_chain[1]].bl.previousBlockHash>>
                               \o alt_chain)),
        ok |-> TRUE]

\* switch_to_alternative_blockchain, after the alternative chain was
\* connected (c)
switchConnected(c, alt_chain, discard_disconnected_chain, disconnected_chain, split_height) ==
  IF ~c.ok
  THEN [St |-> EraseAlt(rollback_blockchain_switching(
                          [c.St EXCEPT !.g = [@ EXCEPT !.connectFailed = TRUE]],
                          disconnected_chain, split_height).St,
                        {alt_chain[j] : j \in c.at..Len(alt_chain)}),
        ok |-> FALSE]
  ELSE switchFinished(
         IF discard_disconnected_chain THEN [St |-> c.St, ok |-> TRUE]
         ELSE PushOldChainAsAlternative(c.St, disconnected_chain),
         alt_chain, disconnected_chain, split_height)

\* Blockchain::switch_to_alternative_blockchain
switch_to_alternative_blockchain(St, alt_chain, discard_disconnected_chain) ==
  IF alt_chain = <<>> THEN [St |-> St, ok |-> FALSE]
  ELSE
    LET split_height == St.m_alternative_chains[alt_chain[1]].height
        disconnected_chain == MainBlocksFrom(St, split_height)
        mainChainTxHashes == ListedHashes(disconnected_chain)
        altChainTxHashes ==
          ListedHashes([i \in 1..Len(alt_chain) |-> St.m_alternative_chains[alt_chain[i]].bl])
    IN IF ~(Len(St.m_blocks) > split_height) THEN [St |-> St, ok |-> FALSE]
       ELSE IF ~(mainChainTxHashes \subseteq altChainTxHashes)
       THEN [St |-> [St EXCEPT !.g = [@ EXCEPT !.refused = TRUE]], ok |-> FALSE]
       ELSE switchConnected(
              ConnectAltChain(popBlocks([St EXCEPT !.g = [@ EXCEPT !.disconnected = TRUE]],
                                        Len(St.m_blocks) - split_height),
                              alt_chain, 1),
              alt_chain, discard_disconnected_chain, disconnected_chain, split_height)

\* the record of the decision handle_alternative_block takes for a block it
\* has validated (the first decision of a call is the one about the block
\* the call was made for): the entry bei, the trigger of the chain switch
\* ("none" if the block is only stored) and the chain a switch connects
Decided(St, bei, trigger, chain) ==
  IF St.g.altAccepted THEN St
  ELSE [St EXCEPT !.g = [@ EXCEPT !.altAccepted = TRUE,
                                  !.altCumDiff = bei.cumulative_difficulty,
                                  !.altHeight = bei.height,
                                  !.switching = trigger,
                                  !.switchChain = chain]]

\* the comparison with its operands exchanged
mainChainIsHeavier(St, bei) ==
  Last(St.m_blocks).cumulative_difficulty > bei.cumulative_difficulty

\* handle_alternative_block: the comparison of the main chain's cumulative
\* difficulty with the one of the new entry, which decides on a reorganize
mainChainIsLighter(St, bei) ==
  Last(St.m_blocks).cumulative_difficulty < bei.cumulative_difficulty

\* handle_alternative_block, end: r is the result of the chain switch
handleAlternativeBlockSwitched(r, bvc) ==
  [St |-> r.St, ok |-> r.ok,
   bvc |-> IF r.ok THEN [bvc EXCEPT !.m_added_to_main_chain = TRUE,
                                    !.m_switched_to_alt_chain = TRUE]
           ELSE [bvc EXCEPT !.m_verification_failed = TRUE]]

\* handle_alternative_block, once the alternative chain of the block
\* (alt_chain, front -> main chain), its height and its difficulty are known
handleAlternativeBlockChecked(St, b, id, bvc, alt_chain, bei_height, current_diff, sendNewAlternativeBlockMessage) ==
  IF ~check_block(St, bei_height, id) THEN Fail(St, bvc, TRUE)
  ELSE IF current_diff = 0 THEN Fail(St, bvc, FALSE)
  ELSE IF ~checkProofOfWork(b, current_diff) THEN Fail(St, bvc, TRUE)
  ELSE IF ~prevalidate_miner_transaction(b, bei_height) THEN Fail(St, bvc, TRUE)
  ELSE IF id \in DOMAIN St.m_alternative_chains THEN Fail(St, bvc, FALSE)
  ELSE
    LET prev_cumulative_difficulty ==
          IF alt_chain # <<>>
          THEN St.m_alternative_chains[b.previousBlockHash].cumulative_difficulty
          ELSE St.m_blocks[bei_height].cumulative_difficulty  \* m_blocks[mainPrevHeight]
        bei == AltEntry(b, bei_height, prev_cumulative_difficulty + current_diff)
    IN IF is_a_checkpoint(St, bei_height)
       THEN handleAlternativeBlockSwitched(
              switch_to_alternative_blockchain(
                Decided([St EXCEPT !.m_alternative_chains = Put(@, id, bei)],
                        bei, "checkpoint", Append(alt_chain, id)),
                Append(alt_chain, id), TRUE),
              bvc)
       ELSE IF mainChainIsLighter(St, bei)
       THEN handleAlternativeBlockSwitched(
              switch_to_alternative_blockchain(
                Decided([St EXCEPT !.m_alternative_chains = Put(@, id, bei)],
                        bei, "difficulty", Append(alt_chain, id)),
                Append(alt_chain, id), FALSE),
              bvc)
       ELSE [St |-> IF sendNewAlternativeBlockMessage
                    THEN sendMessage(
                           Decided([St EXCEPT !.m_alternative_chains = Put(@, id, bei)],
                                   bei, "none", <<>>),
                           NewAlternativeBlockMessage(id))
                    ELSE Decided([St EXCEPT !.m_alternative_chains = Put(@, id, bei)],
                                 bei, "none", <<>>),
             ok |-> TRUE, bvc |-> bvc]

\* handle_alternative_block, once the checkpoints are refreshed: the parent
\* is looked up and the alternative chain is built
handleAlternativeBlockLoaded(St, b, id, bvc, alt_chain, sendNewAlternativeBlockMessage) ==
  LET block_height == get_block_height(b)
      mainPrev == BlockIndexHasBlock(St, b.previousBlockHash)
      mainPrevHeight == BlockIndexGetBlockHeight(St, b.previousBlockHash)
      altTimestamps ==
        [i \in 1..Len(alt_chain) |->
           St.m_alternative_chains[alt_chain[Len(alt_chain) + 1 - i]].bl.timestamp]
      front == St.m_alternative_chains[alt_chain[1]]
      bei_height ==
        IF alt_chain # <<>> THEN St.m_alternative_chains[b.previousBlockHash].height + 1
        ELSE mainPrevHeight + 1
  IN IF ~is_alternative_block_allowed(St, getCurrentBlockchainHeight(St), block_height)
     THEN Fail(St, bvc, TRUE)
     ELSE IF ~checkCumulativeBlockSize(getBlockCumulativeSize(St, b), block_height)
     THEN Fail(St, bvc, TRUE)
     ELSE IF ~(b.previousBlockHash \in DOMAIN St.m_alternative_chains \/ mainPrev)
     THEN [St |-> St, ok |-> TRUE, bvc |-> [bvc EXCEPT !.m_marked_as_orphaned = TRUE]]
     ELSE IF alt_chain # <<>> /\ ~(Len(St.m_blocks) > front.height) THEN Fail(St, bvc, FALSE)
     ELSE IF alt_chain # <<>>
             /\ get_block_hash(St.m_blocks[front.height].bl) # front.bl.previousBlockHash
     THEN Fail(St, bvc, FALSE)
     ELSE IF alt_chain = <<>> /\ ~mainPrev THEN Fail(St, bvc, FALSE)
     ELSE IF ~check_block_timestamp(
                complete_timestamps_vector(
                  St, IF alt_chain # <<>> THEN front.height - 1 ELSE mainPrevHeight,
                  altTimestamps),
                b)
     THEN Fail(St, bvc, TRUE)
     ELSE handleAlternativeBlockChecked(
            St, b, id, bvc, alt_chain, bei_height,
            get_next_difficulty_for_alternative_chain(St, alt_chain, bei_height),
            sendNewAlternativeBlockMessage)

\* Blockchain::handle_alternative_block
handle_alternative_block(St0, b, id, bvc, sendNewAlternativeBlockMessage) ==
  IF get_block_height(b) = 0 THEN Fail(St0, bvc, TRUE)
  ELSE handleAlternativeBlockLoaded(
         load_checkpoints_from_dns(St0), b, id, bvc,
         BuildAltChain(St0, b.previousBlockHash), sendNewAlternativeBlockMessage)

\* addNewBlock, after pushBlock (r) of a block on the tip
addNewBlockPushed(r, id) ==
  IF r.ok THEN [r EXCEPT !.St = sendMessage(@, NewBlockMessage(id))] ELSE r

\* Blockchain::addNewBlock
addNewBlock(St, bl) ==
  LET id == get_block_hash(bl)
  IN IF haveBlock(St, id)
     THEN [St |-> St, ok |-> FALSE, bvc |-> [NoBvc EXCEPT !.m_already_exists = TRUE]]
     ELSE IF bl.previousBlockHash # getTailId(St)
     THEN handle_alternative_block(St, bl, id, NoBvc, TRUE)
     ELSE addNewBlockPushed(pushBlock(St, bl, id, NoBvc), id)

(***************************************************************************)
(* Startup.                                                                *)
(***************************************************************************)
\* the loop of Blockchain::checkCheckpoints over the checkpoint heights in
\* ascending order
RECURSIVE checkCheckpointsFrom(_, _, _)
checkCheckpointsFrom(St, heights, lastValidCheckpointHeight) ==
  IF heights = {} THEN [ok |-> TRUE, lastValidCheckpointHeight |-> lastValidCheckpointHeight]
  ELSE LET checkpointHeight == CHOOSE h \in heights : \A k \in heights : h <= k
       IN IF Len(St.m_blocks) <= checkpointHeight
          THEN [ok |-> TRUE, lastValidCheckpointHeight |-> lastValidCheckpointHeight]
          ELSE IF check_block(St, checkpointHeight, St.m_blockIndex[checkpointHeight + 1])
          THEN checkCheckpointsFrom(St, heights \ {checkpointHeight}, checkpointHeight)
          ELSE [ok |-> FALSE, lastValidCheckpointHeight |-> lastValidCheckpointHeight]

\* Blockchain::checkCheckpoints
checkCheckpoints(St) == checkCheckpointsFrom(St, DOMAIN St.m_checkpoints, 0)

\* Blockchain::init, for a stored chain whose cache loads
init(St) ==
  LET c == checkCheckpoints(St)
  IN IF ~c.ok THEN rollbackBlockchainTo(St, c.lastValidCheckpointHeight) ELSE St

(***************************************************************************)
(* State.                                                                  *)
(***************************************************************************)
VARIABLES
  m_blocks,                 \* the main chain: sequence of block entries
  m_blockIndex,             \* the hashes of the main chain, by height
  m_transactionMap,         \* transaction hash -> (block, transaction) index
  m_spent_keys,             \* key image -> height of the block that spent it
  m_outputs,                \* amount -> sequence of key outputs
  m_multisignatureOutputs,  \* amount -> sequence of multisignature output usages
  m_depositIndex,           \* one record per block
  m_alternative_chains,     \* block hash -> entry of a stored alternative block
  m_tx_pool,                \* the hashes of the pooled transactions
  m_checkpoints,            \* height -> expected block hash
  last,                     \* the last operation and what it reported
  panicked,                 \* a rollback of a chain switch has failed
  m_messageQueueList,       \* registered message queue -> the messages pushed to it
  callers,                  \* thread -> where it is in addNewBlock, and its commit
  commits,                  \* the changes of the main chain committed by the callers
  blockchainUpdated,        \* the commits of the notifications the observers received
  lockers,                  \* thread -> the call it is in and the mutexes it holds
  m_connections,            \* connection id -> the context of a peer connection
  clock,                    \* the time, in sleeps of the timeout monitor since the epoch
  m_peerlist,               \* the white and the gray list of peer addresses
  m_host_fails_score,       \* address -> fail score
  erasedConnections,        \* the connection ids erased from m_connections, in the order of the erasures
  wallet,                   \* the state of the wallet, its threads and its notifications
  event                     \* the event of a lock, and where each party is with the lock

vars ==
  <<m_blocks, m_blockIndex, m_transactionMap, m_spent_keys, m_outputs,
    m_multisignatureOutputs, m_depositIndex, m_alternative_chains, m_tx_pool,
    m_checkpoints, last, panicked, m_messageQueueList, callers, commits,
    blockchainUpdated, lockers, m_connections, clock, m_peerlist, m_host_fails_score,
    erasedConnections, wallet, event>>

\* the engine
engineVars ==
  <<m_blocks, m_blockIndex, m_transactionMap, m_spent_keys, m_outputs,
    m_multisignatureOutputs, m_depositIndex, m_alternative_chains, m_tx_pool,
    m_checkpoints, m_messageQueueList>>

\* the callers of addNewBlock and the observers
callerVars == <<callers, commits, blockchainUpdated>>

\* the peer-to-peer node
nodeVars == <<m_connections, clock, m_peerlist, m_host_fails_score, erasedConnections>>

\* the wallet
walletVars == <<wallet>>

\* the event and the locks on it
systemVars == <<event>>

\* a wallet after construction (WalletLegacy::WalletLegacy): m_state and m_isStopping
\* are the fields of the class; save and shutdown are where the thread in save and the
\* thread in shutdown stand; savers and loaders are the started threads of doSave and
\* doLoad; the other fields count the calls, the accepted calls and the notifications
NewWallet ==
  [m_state |-> "NOT_INITIALIZED", m_isStopping |-> FALSE,
   save |-> "idle", shutdown |-> "idle", m_asyncContextCounter |-> 0,
   savers |-> 0, loaders |-> 0, calls |-> 0,
   acceptedSaves |-> 0, acceptedInits |-> 0, saveCompleted |-> 0, initCompleted |-> 0]

\* the contexts of the dispatcher that take an EventLock, and the threads outside the
\* dispatcher that take a RemoteEventLock
Contexts == {"context1", "context2"}
RemoteThreads == {"thread1", "thread2"}

\* an event after construction, and nobody at the lock
NewEvent ==
  [state |-> FALSE, ready |-> FALSE, pc |-> [p \in Contexts \cup RemoteThreads |-> "idle"]]

\* what one call records besides the engine state
NoG ==
  [threw |-> FALSE, ub |-> FALSE, wild |-> FALSE, oracle |-> FALSE, dns |-> EmptyMap,
   refused |-> FALSE, disconnected |-> FALSE, connectFailed |-> FALSE,
   rollback |-> "none", altAccepted |-> FALSE, altCumDiff |-> 0, altHeight |-> 0,
   switching |-> "none", switchChain |-> <<>>, poolKept |-> TRUE,
   restored |-> FALSE]

EmptySt ==
  [m_blocks |-> <<>>, m_blockIndex |-> <<>>, m_transactionMap |-> EmptyMap,
   m_spent_keys |-> EmptyMap, m_outputs |-> EmptyMap, m_multisignatureOutputs |-> EmptyMap,
   m_depositIndex |-> <<>>, m_alternative_chains |-> EmptyMap, m_tx_pool |-> {},
   m_checkpoints |-> EmptyMap, m_messageQueueList |-> EmptyMap, g |-> NoG]

\* Blockchain::init on an empty data directory: the genesis block is pushed
GenesisSt == pushBlock(EmptySt, GenesisBlock, get_block_hash(GenesisBlock), NoBvc).St

\* the engine state of the next state is St
InstallSt(St) ==
  /\ m_blocks' = St.m_blocks
  /\ m_blockIndex' = St.m_blockIndex
  /\ m_transactionMap' = St.m_transactionMap
  /\ m_spent_keys' = St.m_spent_keys
  /\ m_outputs' = St.m_outputs
  /\ m_multisignatureOutputs' = St.m_multisignatureOutputs
  /\ m_depositIndex' = St.m_depositIndex
  /\ m_alternative_chains' = St.m_alternative_chains
  /\ m_tx_pool' = St.m_tx_pool
  /\ m_checkpoints' = St.m_checkpoints
  /\ m_messageQueueList' = St.m_messageQueueList

Cur(g) ==
  [m_blocks |-> m_blocks, m_blockIndex |-> m_blockIndex, m_transactionMap |-> m_transactionMap,
   m_spent_keys |-> m_spent_keys, m_outputs |-> m_outputs,
   m_multisignatureOutputs |-> m_multisignatureOutputs, m_depositIndex |-> m_depositIndex,
   m_alternative_chains |-> m_alternative_chains, m_tx_pool |-> m_tx_pool,
   m_checkpoints |-> m_checkpoints, m_messageQueueList |-> m_messageQueueList, g |-> g]

\* the threads that may be inside addNewBlock
MaxCallers == 2

\* no thread is inside addNewBlock
NoCallers == [t \in 1..MaxCallers |-> [pc |-> "idle", commit |-> 0]]

Install(St) ==
  /\ UNCHANGED <<callerVars, lockers, walletVars, systemVars, nodeVars>>
  /\ InstallSt(St)

Report(op, ok, bvc, g) ==
  [op |-> op, ok |-> ok, bvc |-> bvc, threw |-> g.threw, ub |-> g.ub, refused |-> g.refused,
   disconnected |-> g.disconnected, connectFailed |-> g.connectFailed,
   rollback |-> g.rollback, altAccepted |-> g.altAccepted, altCumDiff |-> g.altCumDiff,
   altHeight |-> g.altHeight, switching |-> g.switching, switchChain |-> g.switchChain,
   poolKept |-> g.poolKept, restored |-> g.restored]

\* the engine holds St and nothing has been reported yet
Holds(St) ==
  /\ m_blocks = St.m_blocks
  /\ m_blockIndex = St.m_blockIndex
  /\ m_transactionMap = St.m_transactionMap
  /\ m_spent_keys = St.m_spent_keys
  /\ m_outputs = St.m_outputs
  /\ m_multisignatureOutputs = St.m_multisignatureOutputs
  /\ m_depositIndex = St.m_depositIndex
  /\ m_alternative_chains = St.m_alternative_chains
  /\ m_tx_pool = St.m_tx_pool
  /\ m_checkpoints = St.m_checkpoints
  /\ m_messageQueueList = St.m_messageQueueList
  /\ callers = NoCallers
  /\ commits = 0
  /\ blockchainUpdated = <<>>
  /\ lockers = <<>>
  /\ m_connections = EmptyMap
  /\ clock = 1
  /\ m_peerlist = [white |-> EmptyMap, gray |-> {}]
  /\ m_host_fails_score = EmptyMap
  /\ erasedConnections = <<>>
  /\ wallet = NewWallet
  /\ event = NewEvent
  /\ last = Report("init", TRUE, NoBvc, NoG)
  /\ panicked = FALSE

Init == Holds(GenesisSt)

(***************************************************************************)
(* Inputs.                                                                 *)
(***************************************************************************)
Timestamps == {0}
Works == {120}
\* the transaction lists a candidate block may carry
TxLists ==
  {<<>>, <<TxHash(1)>>, <<TxHash(2)>>, <<TxHash(4)>>,
   <<TxHash(1), TxHash(3)>>, <<TxHash(2), TxHash(3)>>}
\* a parent hash the engine has never seen
UnknownParent == <<"unknown">>

\* the blocks the engine holds besides the genesis block
HeldBlocks == (Len(m_blocks) - 1) + Cardinality(DOMAIN m_alternative_chains)

ParentHeight(prev) ==
  IF prev \in DOMAIN m_alternative_chains THEN m_alternative_chains[prev].height
  ELSE IF \E i \in DOMAIN m_blockIndex : m_blockIndex[i] = prev
  THEN (CHOOSE i \in DOMAIN m_blockIndex : m_blockIndex[i] = prev) - 1
  ELSE 0

\* candidate blocks: on any known parent a block whose coinbase claims the
\* parent's height + 1 with the exact reward, or an empty block whose coinbase
\* claims height 0; on the tip also a block whose coinbase pays one COIN less;
\* an empty block on an unknown parent
Candidates ==
  LET parents == Range(m_blockIndex) \cup DOMAIN m_alternative_chains
  IN {Block(prev, ParentHeight(prev) + 1, ts, w, FOUNDATION_TRUST, txs) :
        prev \in parents, ts \in Timestamps, w \in Works, txs \in TxLists}
     \cup {Block(Last(m_blockIndex), Len(m_blocks), ts, w, FOUNDATION_TRUST - 1, txs) :
             ts \in Timestamps, w \in Works, txs \in TxLists}
     \cup {Block(prev, 0, ts, w, FOUNDATION_TRUST, <<>>) :
             prev \in parents, ts \in Timestamps, w \in Works}
     \cup {Block(UnknownParent, 1, ts, w, FOUNDATION_TRUST, <<>>) :
             ts \in Timestamps, w \in Works}

(***************************************************************************)
(* Actions.                                                                *)
(***************************************************************************)
\* a block arrives (Blockchain::addNewBlock); if the call reads outside the
\* stored blocks, both outcomes of the read are possible; a call that writes
\* outside m_multisignatureOutputs ends the process and has no successor
\* the outcomes of one call of addNewBlock: r0 with the read outside the
\* stored blocks (if any) finding the input invalid, and the other outcome
AddNewBlockOutcomes(r0, bl) ==
  IF r0.St.g.ub THEN {r0, addNewBlock(Cur([NoG EXCEPT !.oracle = TRUE]), bl)} ELSE {r0}

AddNewBlock ==
  /\ HeldBlocks < MaxBlocks
  /\ \E bl \in Candidates :
       \E r \in AddNewBlockOutcomes(addNewBlock(Cur(NoG), bl), bl) :
         /\ ~r.St.g.wild
         /\ Install(r.St)
         /\ last' = Report("addNewBlock", r.ok, r.bvc, r.St.g)
         /\ panicked' = (panicked \/ r.St.g.rollback = "failed")

\* a transaction arrives (core::handle_incoming_tx): one the chain or the
\* pool already has is not added again
AddTx ==
  \E n \in TxIds, keptByBlock \in BOOLEAN :
    LET id == TxHash(n)
        known == id \in DOMAIN m_transactionMap
        r == IF known THEN [St |-> Cur(NoG), ok |-> FALSE] ELSE add_tx(Cur(NoG), id, keptByBlock)
    IN /\ Install(r.St)
       /\ last' = Report("addTx", r.ok, NoBvc, NoG)
       /\ UNCHANGED panicked

\* a hash no block has
BogusHash == <<"bogus">>

\* the checkpoint sets a restarted daemon may carry: the present set and one
\* more checkpoint, for the block the chain holds at that height or another
CheckpointSets ==
  UNION {{Put(m_checkpoints, h, id) : id \in {m_blockIndex[h + 1], BogusHash}} :
           h \in (1..(Len(m_blocks) - 1)) \ DOMAIN m_checkpoints}

\* the daemon restarts (Blockchain::init on the stored chain and its cache):
\* the alternative blocks are not kept
Restart ==
  /\ Cardinality(DOMAIN m_checkpoints) < MaxCheckpoints
  /\ \E cps \in CheckpointSets :
       LET St == init([Cur(NoG) EXCEPT !.m_checkpoints = cps,
                                       !.m_alternative_chains = EmptyMap])
       IN /\ Install(St)
          /\ last' = Report("init", TRUE, NoBvc, St.g)
          /\ UNCHANGED panicked

Next == AddNewBlock \/ AddTx \/ Restart

Spec == Init /\ [][Next]_vars

(***************************************************************************)
(* Forks of plain blocks: the engine starts with a main chain              *)
(* [genesis, A, B, C] and an alternative chain that leaves it after A,     *)
(* built by addNewBlock from the genesis state; then blocks arrive on the  *)
(* tips, each with the checkpoints the DNS answers with during the call.   *)
(***************************************************************************)
\* blocks that may arrive after the prepared ones
MaxForkBlocks == 2

\* proof of work that meets the difficulty of a block following two blocks
\* of equal timestamps
HeavyWork == 121 * DIFFICULTY_TARGET

PlainBlock(parent, ts, work) ==
  Block(get_block_hash(parent), parent.blockIndex + 1, ts, work, FOUNDATION_TRUST, <<>>)

ForkA == PlainBlock(GenesisBlock, 0, DIFFICULTY_TARGET)
ForkB == PlainBlock(ForkA, 0, DIFFICULTY_TARGET)
ForkC == PlainBlock(ForkB, 0, DIFFICULTY_TARGET)
\* an alternative chain whose blocks carry the timestamp of A: the third
\* block on it outweighs the main chain
HeavyB == PlainBlock(ForkA, 0, HeavyWork)
HeavyC == PlainBlock(HeavyB, 0, HeavyWork)
\* an alternative chain of blocks one target interval after A: it stays
\* lighter than the main chain
LightB == PlainBlock(ForkA, DIFFICULTY_TARGET, DIFFICULTY_TARGET)
LightC == PlainBlock(LightB, DIFFICULTY_TARGET, DIFFICULTY_TARGET)
LightD == PlainBlock(LightC, DIFFICULTY_TARGET, DIFFICULTY_TARGET)

HeavyFork == <<ForkA, ForkB, ForkC, HeavyB, HeavyC>>
LightFork == <<ForkA, ForkB, ForkC, LightB, LightC, LightD>>

\* the engine after addNewBlock of every block of a sequence
RECURSIVE Replay(_, _)
Replay(St, blocks) ==
  IF blocks = <<>> THEN St
  ELSE Replay([addNewBlock(St, Head(blocks)).St EXCEPT !.g = NoG], Tail(blocks))

InitFork == \E blocks \in {HeavyFork, LightFork} : Holds(Replay(GenesisSt, blocks))

\* the tips: the hashes of the held blocks that no held block follows
Tips ==
  LET held == Range(m_blockIndex) \cup DOMAIN m_alternative_chains
      parents == {m_blocks[i].bl.previousBlockHash : i \in DOMAIN m_blocks}
                   \cup {m_alternative_chains[h].bl.previousBlockHash :
                           h \in DOMAIN m_alternative_chains}
  IN held \ parents

\* the checkpoints the DNS may answer with while block bl is handled: none,
\* one for bl at its height, or one for another block at that height
DnsAnswers(bl) ==
  {EmptyMap, Put(EmptyMap, bl.blockIndex, get_block_hash(bl)),
   Put(EmptyMap, bl.blockIndex, BogusHash)}

ForkCandidates ==
  {Block(prev, ParentHeight(prev) + 1, ts, w, FOUNDATION_TRUST, <<>>) :
     prev \in Tips, ts \in {0, DIFFICULTY_TARGET}, w \in {DIFFICULTY_TARGET, HeavyWork}}

\* a plain block arrives on a tip
AddForkBlock ==
  /\ HeldBlocks < Len(LightFork) + MaxForkBlocks
  /\ \E bl \in ForkCandidates :
       \E dns \in DnsAnswers(bl) :
       \E r \in {addNewBlock(Cur([NoG EXCEPT !.dns = dns]), bl)} :
         /\ Install(r.St)
         /\ last' = Report("addNewBlock", r.ok, r.bvc, r.St.g)
         /\ panicked' = (panicked \/ r.St.g.rollback = "failed")

NextFork == AddForkBlock

SpecFork == InitFork /\ [][NextFork]_vars

(***************************************************************************)
(* Properties.                                                             *)
(***************************************************************************)
\* a block hash is the tuple of the block's fields
PreviousOf(id) == id[1]
ListedIn(id) == id[6]

\* the hashes of the transactions listed in the blocks of the main chain
MainChainTxs == UNION {Range(m_blocks[i].bl.transactionHashes) : i \in DOMAIN m_blocks}

\* the positions (block, transaction) of the main chain whose transaction
\* spends key image k
KeySpenders(k) ==
  {p \in UNION {{<<i, j>> : j \in DOMAIN m_blocks[i].transactions} : i \in DOMAIN m_blocks} :
     \E n \in DOMAIN TxBody(m_blocks[p[1]].transactions[p[2]]).inputs :
       LET in == TxBody(m_blocks[p[1]].transactions[p[2]]).inputs[n]
       IN in.type = "key" /\ in.keyImage = k}

\* the key images spent by the transactions of the main chain
MainChainKeyImages ==
  UNION {UNION {{TxBody(m_blocks[i].transactions[j]).inputs[n].keyImage :
                   n \in {x \in DOMAIN TxBody(m_blocks[i].transactions[j]).inputs :
                            TxBody(m_blocks[i].transactions[j]).inputs[x].type = "key"}} :
                  j \in DOMAIN m_blocks[i].transactions} :
           i \in DOMAIN m_blocks}

\* a transaction of the main chain spends multisignature output n (0-based)
\* of amount a
MultisignatureSpent(a, n) ==
  \E i \in DOMAIN m_blocks : \E j \in DOMAIN m_blocks[i].transactions :
    \E x \in DOMAIN TxBody(m_blocks[i].transactions[j]).inputs :
      LET in == TxBody(m_blocks[i].transactions[j]).inputs[x]
      IN in.type = "msig" /\ in.amount = a /\ in.outputIndex = n

\* the stored alternative blocks from the main chain up to block h, oldest first
RECURSIVE AltBranch(_)
AltBranch(h) ==
  IF h \notin DOMAIN m_alternative_chains THEN <<>>
  ELSE Append(AltBranch(m_alternative_chains[h].bl.previousBlockHash), h)

\* C1: when a chain switch fails while connecting an alternative block and is
\* rolled back, the transaction map holds after the call exactly the
\* transaction hashes it held before the call
C1_RollbackConservesTransactions ==
  [][(last'.op = "addNewBlock" /\ last'.connectFailed /\ last'.rollback # "none")
       => DOMAIN m_transactionMap' = DOMAIN m_transactionMap]_vars

\* C2: when the push of an alternative block fails during a chain switch, the
\* main chain is after the call the sequence of blocks it was before, and the
\* block that triggered the switch is reported as not accepted
C2_FailedSwitchRestoresChain ==
  [][(last'.op = "addNewBlock" /\ last'.connectFailed)
       => /\ m_blockIndex' = m_blockIndex
          /\ m_blocks' = m_blocks
          /\ ~last'.ok
          /\ ~last'.bvc.m_added_to_main_chain]_vars

\* C3: every key image spent by a transaction of the main chain is in the
\* spent-keys set, and exactly one transaction of one main-chain block spends it
C3_SpentKeysOfMainChain ==
  \A k \in MainChainKeyImages :
    k \in DOMAIN m_spent_keys /\ Cardinality(KeySpenders(k)) = 1

\* a chain switch has put a transaction that spends a key image into the main chain
C3_Witness ==
  /\ last.op = "addNewBlock"
  /\ last.bvc.m_switched_to_alt_chain
  /\ MainChainKeyImages # {}

\* C4: the used flag of a multisignature output is TRUE exactly when a
\* transaction of the main chain spends the output
C4_UsedFlagOfMultisignatureOutputs ==
  \A a \in DOMAIN m_multisignatureOutputs :
    \A n \in DOMAIN m_multisignatureOutputs[a] :
      m_multisignatureOutputs[a][n].isUsed <=> MultisignatureSpent(a, n - 1)

\* C5: for a block accepted on the alternative path a chain switch is
\* attempted exactly when the block's cumulative difficulty exceeds that of
\* the main tip or the block's height carries a checkpoint; otherwise the
\* block is stored in m_alternative_chains and nothing else changes
C5_SwitchAttemptedExactlyWhenTriggered ==
  [][(last'.op = "addNewBlock" /\ last'.altAccepted)
       => LET triggered ==
                \/ last'.altCumDiff > Last(m_blocks).cumulative_difficulty
                \/ last'.altHeight \in DOMAIN m_checkpoints'
          IN /\ (last'.switching # "none") <=> triggered
             /\ ~triggered =>
                  /\ \E id \in (DOMAIN m_alternative_chains') \ DOMAIN m_alternative_chains :
                       m_alternative_chains' =
                         Put(m_alternative_chains, id, m_alternative_chains'[id])
                  /\ UNCHANGED <<m_blocks, m_blockIndex, m_transactionMap, m_spent_keys,
                                 m_outputs, m_multisignatureOutputs, m_depositIndex,
                                 m_tx_pool>>]_vars

\* the light alternative chain replaced the main blocks B and C because its
\* sixth block is a checkpoint, although the chain weighs less than the
\* block C alone
C5_Witness ==
  /\ last.op = "addNewBlock"
  /\ last.altAccepted
  /\ last.switching = "checkpoint"
  /\ last.bvc.m_switched_to_alt_chain
  /\ last.altHeight \in DOMAIN m_checkpoints
  /\ last.altCumDiff < DIFFICULTY_TARGET
  /\ SubSeq(m_blockIndex, 1, 5) =
       <<get_block_hash(GenesisBlock), get_block_hash(ForkA), get_block_hash(LightB),
         get_block_hash(LightC), get_block_hash(LightD)>>

\* C6: without checkpoints and with plain blocks, presenting a block whose
\* alternative chain outweighs the main chain switches the chains: the main
\* chain becomes its blocks up to the fork point followed by the stored
\* alternative blocks in their order and the presented block
C6_ForkReorg ==
  [][(/\ last'.op = "addNewBlock"
      /\ last'.altAccepted
      /\ last'.altCumDiff > Last(m_blocks).cumulative_difficulty
      /\ DOMAIN m_checkpoints' = {})
       => /\ last'.ok
          /\ last'.bvc.m_switched_to_alt_chain
          /\ last'.switchChain # <<>>
          /\ Front(last'.switchChain) = AltBranch(PreviousOf(Last(last'.switchChain)))
          /\ \E f \in DOMAIN m_blockIndex :
               /\ m_blockIndex[f] = PreviousOf(last'.switchChain[1])
               /\ m_blockIndex' = SubSeq(m_blockIndex, 1, f) \o last'.switchChain]_vars

\* the main chain [genesis, A, B, C] was replaced by [genesis, A, B', C', D']
\* and B and C are stored as alternative blocks
C6_Witness ==
  /\ last.op = "addNewBlock"
  /\ last.switching = "difficulty"
  /\ Len(m_blockIndex) = 5
  /\ SubSeq(m_blockIndex, 1, 4) =
       <<get_block_hash(GenesisBlock), get_block_hash(ForkA), get_block_hash(HeavyB),
         get_block_hash(HeavyC)>>
  /\ PreviousOf(m_blockIndex[5]) = get_block_hash(HeavyC)
  /\ DOMAIN m_alternative_chains = {get_block_hash(ForkB), get_block_hash(ForkC)}

\* the main-chain blocks above the parent of chain[1] list a transaction that
\* no block of chain lists
MainTransactionMissing(chain) ==
  \E f \in DOMAIN m_blockIndex :
    /\ m_blockIndex[f] = PreviousOf(chain[1])
    /\ \E i \in (f + 1)..Len(m_blocks) :
         \E h \in Range(m_blocks[i].bl.transactionHashes) :
           \A c \in DOMAIN chain : h \notin Range(ListedIn(chain[c]))

\* C7: a chain switch is refused, nothing is disconnected and the main chain
\* stays as it is, whenever a main-chain block at or above the fork height
\* lists a transaction that no block of the alternative chain lists
C7_SwitchRefusedWhenTransactionMissing ==
  [][(/\ last'.op = "addNewBlock"
      /\ last'.switching # "none"
      /\ MainTransactionMissing(last'.switchChain))
       => /\ last'.refused
          /\ ~last'.disconnected
          /\ ~last'.ok
          /\ m_blocks' = m_blocks
          /\ m_blockIndex' = m_blockIndex]_vars

\* a chain switch was refused
C7_Witness ==
  /\ last.op = "addNewBlock"
  /\ last.switching = "difficulty"
  /\ last.refused
  /\ MainChainTxs # {}

\* C8: every transaction that a step removes from the main chain is in the
\* pool after the step
C8_RemovedTransactionsReturnToPool ==
  [][\A h \in MainChainTxs : h \notin MainChainTxs' => h \in m_tx_pool']_vars

\* C9: a call of pushBlock that rejects its block leaves the pool as the call
\* found it
C9_RejectedBlockKeepsPool ==
  [][last'.op = "addNewBlock" => last'.poolKept]_vars

\* a block was rejected after its transactions had been taken from the pool
C9_Witness ==
  /\ last.op = "addNewBlock"
  /\ ~last.ok
  /\ last.restored
  /\ last.poolKept
  /\ m_tx_pool # {}

\* C10: once the rollback of a failed chain switch has failed, no block is
\* accepted, neither into the main chain nor as an alternative block
C10_NoBlockAcceptedAfterFailedRollback ==
  [][panicked => ~(/\ last'.op = "addNewBlock"
                   /\ (last'.bvc.m_added_to_main_chain \/ last'.altAccepted))]_vars

\* Blockchain::difficultyAtHeight, 0-based height
difficultyAtHeight(height) ==
  IF height < 1 THEN m_blocks[height + 1].cumulative_difficulty
  ELSE m_blocks[height + 1].cumulative_difficulty - m_blocks[height].cumulative_difficulty

\* the difficulty a block has to satisfy to follow the first height blocks of
\* the main chain
DifficultyToFollow(height) ==
  getDifficultyForNextBlock([m_blocks |-> SubSeq(m_blocks, 1, height)])

\* C11: for every height h >= 1 of the main chain the difference of the
\* cumulative difficulties of the blocks h and h - 1 is the difficulty block h
\* had to satisfy when it was pushed on the blocks below it
C11_CumulativeDifficultySteps ==
  \A h \in 1..(Len(m_blocks) - 1) : difficultyAtHeight(h) = DifficultyToFollow(h)

\* a chain switch has replaced the blocks above the first one by three
\* blocks of growing difficulty
C11_Witness ==
  /\ last.op = "addNewBlock"
  /\ last.bvc.m_switched_to_alt_chain
  /\ Len(m_blocks) = 5
  /\ difficultyAtHeight(4) > difficultyAtHeight(3)
  /\ difficultyAtHeight(3) > difficultyAtHeight(2)

(***************************************************************************)
(* The base reward as a function of its arguments.                         *)
(***************************************************************************)
\* heights on both sides of every branch of baseRewardFunction
RewardHeights ==
  {0, 1, 100, 101, UPGRADE_HEIGHT_V8, UPGRADE_HEIGHT_V8 + 1, UPGRADE_HEIGHT_V9,
   UPGRADE_HEIGHT_V9 + 1, 56450, 59215, 59216}

\* amounts of coins already generated, none above the money supply: none, few,
\* and all but less than one block reward
GeneratedCoins ==
  {Amount(0, 0), AmountOfCoins(FOUNDATION_TRUST), Amount(FOUNDATION_TRUST1, 0),
   AmountMinus(m_moneySupply, AmountOfCoins(FOUNDATION_TRUST)),
   AmountMinus(m_moneySupply, AmountOfCoins(MAX_BLOCK_REWARD)),
   AmountMinus(m_moneySupply, AmountOfCoins(MAX_BLOCK_REWARD_V2)),
   AmountMinus(m_moneySupply, AmountOfCoins(MAX_BLOCK_REWARD_V1)),
   AmountMinus(m_moneySupply, AmountOfCoins(START_BLOCK_REWARD)),
   AmountMinus(m_moneySupply, AmountOfCoins(1)),
   m_moneySupply}

InitReward ==
  /\ Holds(GenesisSt)

\* Currency::baseRewardFunction is called
BaseReward ==
  /\ \E alreadyGeneratedCoins \in GeneratedCoins, height \in RewardHeights :
       last' = [op |-> "baseRewardFunction",
                alreadyGeneratedCoins |-> alreadyGeneratedCoins, height |-> height,
                base_reward |-> baseRewardFunction(alreadyGeneratedCoins, height)]
  /\ UNCHANGED <<engineVars, panicked, callerVars, lockers, walletVars, systemVars, nodeVars>>

NextReward == BaseReward

SpecReward == InitReward /\ [][NextReward]_vars

\* C17: for every height and every amount of already generated coins up to
\* the money supply, the base reward is at most the money supply minus the
\* coins already generated
C17_BaseRewardWithinSupply ==
  last.op = "baseRewardFunction" =>
    AmountLeq(last.base_reward, AmountMinus(m_moneySupply, last.alreadyGeneratedCoins))

(***************************************************************************)
(* Blocks above the median size that carry a fee.                          *)
(***************************************************************************)
MaxFeeBlocks == 4

\* the reward a miner claims for a block that carries FeeTx and follows
\* blocks that carry no transaction
FeeBlockReward ==
  getBlockReward(COINBASE_SIZE, COINBASE_SIZE + FeeTx.size, FOUNDATION_TRUST,
                 getTransactionFee(FeeTx), 2).reward

\* the main chain holds a block on the genesis block, whose reward exceeds
\* the amount FeeTx spends, and FeeTx is in the pool
InitFee == Holds(add_tx(Replay(GenesisSt, <<ForkA>>), FeeTxHash, FALSE).St)

\* candidate blocks on any held block but the genesis block: an empty block,
\* and a block that carries FeeTx with the reward of such a block or with the
\* full base reward
FeeCandidates ==
  LET parents == (Range(m_blockIndex) \cup DOMAIN m_alternative_chains)
                   \ {get_block_hash(GenesisBlock)}
  IN {Block(prev, ParentHeight(prev) + 1, 0, DIFFICULTY_TARGET, FOUNDATION_TRUST, txs) :
        prev \in parents, txs \in {<<>>, <<FeeTxHash>>}}
     \cup {Block(prev, ParentHeight(prev) + 1, 0, DIFFICULTY_TARGET, FeeBlockReward,
                 <<FeeTxHash>>) : prev \in parents}

\* a block arrives (Blockchain::addNewBlock)
AddFeeBlock ==
  /\ HeldBlocks < 1 + MaxFeeBlocks
  /\ \E bl \in FeeCandidates :
       \E r \in {addNewBlock(Cur(NoG), bl)} :
         /\ Install(r.St)
         /\ last' = Report("addNewBlock", r.ok, r.bvc, r.St.g)
         /\ panicked' = (panicked \/ r.St.g.rollback = "failed")

NextFee == AddFeeBlock

SpecFee == InitFee /\ [][NextFee]_vars

\* the fees of the transactions block h of the main chain lists
FeesOfBlock(h) == SumFees(m_blocks[h + 1].bl.transactionHashes)

\* the median of the block sizes that the reward of block h was computed
\* with, not below the full reward zone
MedianSizeBelow(h) ==
  Max(medianValue(get_last_n_blocks_sizes([m_blocks |-> SubSeq(m_blocks, 1, h)],
                                          CRYPTONOTE_REWARD_BLOCKS_WINDOW)),
      CRYPTONOTE_BLOCK_GRANTED_FULL_REWARD_ZONE)

\* the coins block h of the main chain has added
GeneratedBy(h) ==
  m_blocks[h + 1].already_generated_coins - m_blocks[h].already_generated_coins

MainChainKeyOutputs ==
  UNION {UNION {{[amount |-> TxBody(m_blocks[b].transactions[t]).outputs[o].amount,
                  entry |-> [transactionIndex |-> TransactionIndex(b - 1, t - 1),
                             output |-> o - 1]] :
                   o \in {i \in DOMAIN TxBody(m_blocks[b].transactions[t]).outputs :
                            TxBody(m_blocks[b].transactions[t]).outputs[i].type = "key"}} :
                 t \in DOMAIN m_blocks[b].transactions} :
           b \in DOMAIN m_blocks}

\* the global indexes (0-based) at which m_outputs holds an entry for amount a
GlobalIndexesOf(a, entry) ==
  IF a \in DOMAIN m_outputs THEN {i - 1 : i \in {j \in DOMAIN m_outputs[a] : m_outputs[a][j] = entry}}
  ELSE {}

\* entry e was made before entry f: in an earlier block, an earlier
\* transaction of the block or an earlier output of the transaction
MadeBefore(e, f) ==
  \/ e.transactionIndex.block < f.transactionIndex.block
  \/ /\ e.transactionIndex.block = f.transactionIndex.block
     /\ \/ e.transactionIndex.transaction < f.transactionIndex.transaction
        \/ /\ e.transactionIndex.transaction = f.transactionIndex.transaction
           /\ e.output < f.output

\* C13: every key output of every transaction of the main chain appears
\* exactly once in m_outputs under its amount, and the global indexes of an
\* amount follow the order of acceptance without duplicates and without gaps:
\* every index belongs to a key output of the main chain
C13_KeyOutputIndex ==
  /\ \A k \in MainChainKeyOutputs : Cardinality(GlobalIndexesOf(k.amount, k.entry)) = 1
  /\ \A a \in DOMAIN m_outputs :
       /\ \A i, j \in DOMAIN m_outputs[a] : i < j => MadeBefore(m_outputs[a][i], m_outputs[a][j])
       /\ \A i \in DOMAIN m_outputs[a] :
            [amount |-> a, entry |-> m_outputs[a][i]] \in MainChainKeyOutputs

(***************************************************************************)
(* Deposits.                                                               *)
(***************************************************************************)
MaxDepositBlocks == 3

\* the block on the genesis block that carries the creation of the deposit
DepositA ==
  Block(get_block_hash(GenesisBlock), 1, 0, DIFFICULTY_TARGET, FOUNDATION_TRUST,
        <<DepositTxHash(1)>>)

\* the main chain holds the deposit, created at height 1
InitDeposit ==
  Holds(Replay(add_tx(GenesisSt, DepositTxHash(1), FALSE).St, <<DepositA>>))

\* the two withdrawals
Withdrawals == {DepositTxHash(2), DepositTxHash(3)}

\* a withdrawal arrives (core::handle_incoming_tx), by itself or with a block
AddWithdrawal ==
  \E id \in Withdrawals, keptByBlock \in BOOLEAN :
    LET known == id \in DOMAIN m_transactionMap
        r == IF known THEN [St |-> Cur(NoG), ok |-> FALSE] ELSE add_tx(Cur(NoG), id, keptByBlock)
    IN /\ Install(r.St)
       /\ last' = Report("addTx", r.ok, NoBvc, NoG)
       /\ UNCHANGED panicked

\* candidate blocks on any held block: without transactions or with one of
\* the withdrawals
DepositCandidates ==
  LET parents == Range(m_blockIndex) \cup DOMAIN m_alternative_chains
  IN {Block(prev, ParentHeight(prev) + 1, 0, DIFFICULTY_TARGET, FOUNDATION_TRUST, txs) :
        prev \in parents, txs \in {<<>>} \cup {<<id>> : id \in Withdrawals}}

\* a block arrives (Blockchain::addNewBlock)
AddDepositBlock ==
  /\ HeldBlocks < 1 + MaxDepositBlocks
  /\ \E bl \in DepositCandidates :
       \E r \in {addNewBlock(Cur(NoG), bl)} :
         /\ Install(r.St)
         /\ last' = Report("addNewBlock", r.ok, r.bvc, r.St.g)
         /\ panicked' = (panicked \/ r.St.g.rollback = "failed")

NextDeposit == AddWithdrawal \/ AddDepositBlock

SpecDeposit == InitDeposit /\ [][NextDeposit]_vars

\* the multisignature input of a withdrawal
WithdrawalInput(id) == TxBody(id).inputs[1]

\* the deposit output a withdrawal spends is held by the main chain and unspent
DepositHeld(id) ==
  /\ WithdrawalInput(id).amount \in DOMAIN m_multisignatureOutputs
  /\ WithdrawalInput(id).outputIndex < Len(m_multisignatureOutputs[WithdrawalInput(id).amount])
  /\ ~m_multisignatureOutputs[WithdrawalInput(id).amount][WithdrawalInput(id).outputIndex + 1].isUsed

\* the height at which the deposit a withdrawal spends was created, its term
CreatingHeight(id) ==
  m_multisignatureOutputs[WithdrawalInput(id).amount][WithdrawalInput(id).outputIndex + 1]
    .transactionIndex.block
DepositTerm(id) ==
  LET usage == m_multisignatureOutputs[WithdrawalInput(id).amount][WithdrawalInput(id).outputIndex + 1]
  IN TxBody(m_blocks[usage.transactionIndex.block + 1]
              .transactions[usage.transactionIndex.transaction + 1])
       .outputs[usage.outputIndex + 1].term

\* the law of the claim for a withdrawal at height h
WithdrawalLegal(id, h) ==
  /\ CreatingHeight(id) + DepositTerm(id) <= h
  /\ WithdrawalInput(id).term = DepositTerm(id)

\* the heights of the main chain at which a block lists transaction id
HeightsListing(id) ==
  {b - 1 : b \in {i \in DOMAIN m_blocks : \E t \in DOMAIN m_blocks[i].transactions :
                                            m_blocks[i].transactions[t] = id}}

upgradeHeight(majorVersion) ==
  IF majorVersion = 2 THEN UPGRADE_HEIGHT_V2
  ELSE IF majorVersion = 3 THEN UPGRADE_HEIGHT_V3
  ELSE IF majorVersion = 4 THEN UPGRADE_HEIGHT_V6
  ELSE IF majorVersion = 7 THEN UPGRADE_HEIGHT_V7
  ELSE UPGRADE_HEIGHT_V8

\* Blockchain::get_block_major_version_for_height: every upgrade detector
\* answers with the upgrade height of the currency
get_block_major_version_for_height(height) ==
  IF height > upgradeHeight(8) THEN 8
  ELSE IF height > upgradeHeight(7) THEN 7
  ELSE IF height > upgradeHeight(4) THEN 4
  ELSE IF height > upgradeHeight(3) THEN 3
  ELSE IF height > upgradeHeight(2) THEN 2
  ELSE 1

\* Blockchain::getDifficultyForNextBlock: the function of Currency it returns
\* the result of, for a main chain of block_index blocks
difficultyFunctionOfMainChain(block_index) ==
  LET block_major_version == get_block_major_version_for_height(block_index + 1)
  IN IF block_major_version >= 4 THEN "nextDifficultyLWMA3" ELSE "nextDifficulty"

\* Blockchain::get_next_difficulty_for_alternative_chain: the function of
\* Currency it returns the result of
difficultyFunctionOfAlternativeChain(block_index) ==
  LET block_major_version == get_block_major_version_for_height(block_index + 1)
  IN IF block_major_version >= 8 THEN "nextDifficultyLWMA1"
     ELSE IF block_major_version >= 4 THEN "nextDifficultyLWMA3"
     ELSE "nextDifficulty"

\* chain lengths on both sides of every upgrade height
ChainLengths ==
  UNION {{n \in (upgradeHeight(v) - 8)..(upgradeHeight(v) + 8) : n >= 0} : v \in {2, 3, 4, 7, 8}}

InitDifficulty == Holds(GenesisSt)

\* the difficulty of the next block is asked for, for the main chain or for
\* an alternative chain
NextDifficultyAsked ==
  /\ \E block_index \in ChainLengths, alt \in BOOLEAN :
       last' = [op |-> "difficulty", alt |-> alt, block_index |-> block_index,
                version |-> get_block_major_version_for_height(block_index + 1),
                function |-> IF alt THEN difficultyFunctionOfAlternativeChain(block_index)
                             ELSE difficultyFunctionOfMainChain(block_index)]
  /\ UNCHANGED <<engineVars, panicked, callerVars, lockers, walletVars, systemVars, nodeVars>>

NextDifficultyStep == NextDifficultyAsked

SpecDifficulty == InitDifficulty /\ [][NextDifficultyStep]_vars

\* C15: the difficulty algorithm is selected by the block major version:
\* the classic one for the versions 1 to 3, LWMA3 for 4 to 7, LWMA1 from 8
\* on, on the main chain as on an alternative chain
C15_DifficultyAlgorithmByVersion ==
  last.op = "difficulty" =>
    last.function = (IF last.version >= 8 THEN "nextDifficultyLWMA1"
                     ELSE IF last.version >= 4 THEN "nextDifficultyLWMA3"
                     ELSE "nextDifficulty")

(***************************************************************************)
(* The merge-mining tag of the miner transaction.                          *)
(***************************************************************************)
\* a block index of n hashes
BlockIndexOfLength(n) == [i \in 1..n |-> <<"block", i - 1>>]

\* BlockIndex::hasBlock
hasBlock(blockIndex, blockHash) == \E i \in DOMAIN blockIndex : blockIndex[i] = blockHash

\* BlockIndex::getBlockHeight: whether the hash is found, and its height
getBlockHeight(blockIndex, blockHash) ==
  IF hasBlock(blockIndex, blockHash)
  THEN [found |-> TRUE, height |-> (CHOOSE i \in DOMAIN blockIndex : blockIndex[i] = blockHash) - 1]
  ELSE [found |-> FALSE, height |-> 0]

\* pushBlock(blockData, transactions, id, bvc) up to the test of the
\* merge-mining tag, for a block of the expected version; mmTag: the extra of
\* the miner transaction carries a merge-mining tag
pushBlockMergeMining(blockIndex, blockHash, mmTag) ==
  IF hasBlock(blockIndex, blockHash)
  THEN [refused |-> TRUE, bvc |-> [NoBvc EXCEPT !.m_verification_failed = TRUE]]
  ELSE LET r == getBlockHeight(blockIndex, blockHash)
       IN IF r.found /\ mmTag /\ r.height >= UPGRADE_HEIGHT_V6
          THEN [refused |-> TRUE, bvc |-> NoBvc]
          ELSE [refused |-> FALSE, bvc |-> NoBvc]

\* handle_alternative_block: the test of the merge-mining tag
handleAlternativeBlockMergeMining(bei_height, mmTag) ==
  IF mmTag /\ bei_height >= UPGRADE_HEIGHT_V6
  THEN [refused |-> TRUE, bvc |-> NoBvc]
  ELSE [refused |-> FALSE, bvc |-> NoBvc]

\* heights on both sides of UPGRADE_HEIGHT_V6
MergeMiningHeights == (UPGRADE_HEIGHT_V6 - 15)..(UPGRADE_HEIGHT_V6 + 15)

InitMergeMining == Holds(GenesisSt)

\* a block of height height arrives at pushBlock, with a hash the block
\* index has not or (already = TRUE) the hash of the tip
PushTaggedBlock ==
  /\ \E height \in MergeMiningHeights, mmTag \in BOOLEAN, already \in BOOLEAN :
       last' = [op |-> "pushBlock", height |-> height, mmTag |-> mmTag, already |-> already,
                r |-> pushBlockMergeMining(
                        BlockIndexOfLength(height),
                        IF already THEN <<"block", height - 1>> ELSE <<"block", height>>,
                        mmTag)]
  /\ UNCHANGED <<engineVars, panicked, callerVars, lockers, walletVars, systemVars, nodeVars>>

\* a block that takes height height in an alternative chain arrives at
\* handle_alternative_block
HandleTaggedBlock ==
  /\ \E height \in MergeMiningHeights, mmTag \in BOOLEAN :
       last' = [op |-> "handle_alternative_block", height |-> height, mmTag |-> mmTag,
                already |-> FALSE,
                r |-> handleAlternativeBlockMergeMining(height, mmTag)]
  /\ UNCHANGED <<engineVars, panicked, callerVars, lockers, walletVars, systemVars, nodeVars>>

NextMergeMining == PushTaggedBlock \/ HandleTaggedBlock

SpecMergeMining == InitMergeMining /\ [][NextMergeMining]_vars

\* C16: a block at or after UPGRADE_HEIGHT_V6 whose miner transaction carries
\* a merge-mining tag is refused, on its way into the main chain as on its way
\* into the alternative chains
C16_MergeMiningRefused ==
  (last.op \in {"pushBlock", "handle_alternative_block"}
     /\ last.mmTag /\ last.height >= UPGRADE_HEIGHT_V6) => last.r.refused

\* C16 for the alternative chains alone
C16_MergeMiningRefusedAsAlternative ==
  (last.op = "handle_alternative_block" /\ last.mmTag /\ last.height >= UPGRADE_HEIGHT_V6)
    => last.r.refused

(***************************************************************************)
(* The outcome flags of addNewBlock.                                       *)
(***************************************************************************)
\* no flag of the verification context is set
AllFlagsClear(bvc) ==
  /\ ~bvc.m_added_to_main_chain
  /\ ~bvc.m_verification_failed
  /\ ~bvc.m_marked_as_orphaned
  /\ ~bvc.m_already_exists
  /\ ~bvc.m_switched_to_alt_chain

\* C18: addNewBlock never returns failure with all outcome flags clear: a
\* block that addNewBlock refuses, itself or through the
\* handle_alternative_block it returns the result of, comes back with a flag
\* of the verification context set
C18_FailureSetsAFlag ==
  /\ (last.op = "addNewBlock" /\ ~last.ok) => ~AllFlagsClear(last.bvc)
  /\ (last.op = "handle_alternative_block" /\ last.r.refused) => ~AllFlagsClear(last.r.bvc)

(***************************************************************************)
(* Message queues: the engine of the forks of plain blocks, with message   *)
(* queues that register and leave while blocks arrive.                     *)
(***************************************************************************)
\* the message queues that may register
MaxQueues == 2
\* blocks that may arrive after the prepared ones
MaxMessageBlocks == 2

\* Blockchain::addMessageQueue: the queue joins the list, nothing pushed yet
addMessageQueue(St, messageQueue) ==
  IF messageQueue \in DOMAIN St.m_messageQueueList THEN St
  ELSE [St EXCEPT !.m_messageQueueList =
          [q \in (DOMAIN @) \cup {messageQueue} |-> IF q = messageQueue THEN <<>> ELSE @[q]]]

\* Blockchain::removeMessageQueue
removeMessageQueue(St, messageQueue) ==
  [St EXCEPT !.m_messageQueueList = [q \in (DOMAIN @) \ {messageQueue} |-> @[q]]]

InitMessages == InitFork

AddMessageQueue ==
  /\ \E messageQueue \in (1..MaxQueues) \ DOMAIN m_messageQueueList :
       Install(addMessageQueue(Cur(NoG), messageQueue))
  /\ last' = Report("addMessageQueue", TRUE, NoBvc, NoG)
  /\ UNCHANGED panicked

RemoveMessageQueue ==
  /\ \E messageQueue \in DOMAIN m_messageQueueList :
       Install(removeMessageQueue(Cur(NoG), messageQueue))
  /\ last' = Report("removeMessageQueue", TRUE, NoBvc, NoG)
  /\ UNCHANGED panicked

\* a plain block arrives on a tip
AddMessageBlock ==
  /\ HeldBlocks < Len(LightFork) + MaxMessageBlocks
  /\ \E bl \in ForkCandidates :
       \E dns \in DnsAnswers(bl) :
       \E r \in {addNewBlock(Cur([NoG EXCEPT !.dns = dns]), bl)} :
         /\ Install(r.St)
         /\ last' = Report("addNewBlock", r.ok, r.bvc, r.St.g)
         /\ panicked' = (panicked \/ r.St.g.rollback = "failed")

NextMessages == AddMessageQueue \/ RemoveMessageQueue \/ AddMessageBlock

SpecMessages == InitMessages /\ [][NextMessages]_vars

\* the message tells the step of the main chain from oldIndex to newIndex: the
\* new block on the old tip, or the blocks of the new branch from the common
\* root up to the new tip
DescribesChange(message, oldIndex, newIndex) ==
  \/ /\ message.type = "NEW_BLOCK_MESSAGE"
     /\ newIndex = Append(oldIndex, message.hashes[1])
  \/ /\ message.type = "CHAIN_SWITCH_MESSAGE"
     /\ \E root \in DOMAIN oldIndex :
          /\ oldIndex[root] = message.hashes[1]
          /\ newIndex = SubSeq(oldIndex, 1, root) \o Tail(message.hashes)

\* C19: every change of the main chain that addNewBlock commits, a block on
\* the tip or a chain switch, has appended a message describing it to every
\* message queue registered at that moment when addNewBlock returns
C19_CommitReachesEveryQueue ==
  [][(last'.op = "addNewBlock" /\ last'.ok /\ m_blockIndex' # m_blockIndex)
       => /\ DOMAIN m_messageQueueList' = DOMAIN m_messageQueueList
          /\ \A q \in DOMAIN m_messageQueueList :
               /\ Len(m_messageQueueList'[q]) > Len(m_messageQueueList[q])
               /\ SubSeq(m_messageQueueList'[q], 1, Len(m_messageQueueList[q]))
                    = m_messageQueueList[q]
               /\ DescribesChange(Last(m_messageQueueList'[q]), m_blockIndex, m_blockIndex')]_vars

\* a chain switch has been committed while two queues were registered, and
\* the last message of both is the one about the switch
C19_Witness ==
  /\ last.op = "addNewBlock" /\ last.ok /\ last.bvc.m_switched_to_alt_chain
  /\ DOMAIN m_messageQueueList = 1..MaxQueues
  /\ \A q \in DOMAIN m_messageQueueList :
       /\ m_messageQueueList[q] # <<>>
       /\ Last(m_messageQueueList[q]).type = "CHAIN_SWITCH_MESSAGE"
       /\ Last(Last(m_messageQueueList[q]).hashes) = Last(m_blockIndex)

(***************************************************************************)
(* Observers: threads call addNewBlock with plain blocks on the engine of  *)
(* the genesis block; a thread holds the locks of the pool and of the      *)
(* chain from the lookup of the block to the end of pushBlock or           *)
(* handle_alternative_block and calls the observers after it has released  *)
(* them.                                                                   *)
(***************************************************************************)
\* blocks that may arrive after the genesis block
MaxObserverBlocks == 3

InitObservers == Holds(GenesisSt)

\* a thread takes the locks, handles a block and releases the locks; after
\* a change of the main chain it has the observers still to call
CallerAddsBlock ==
  /\ HeldBlocks < MaxObserverBlocks
  /\ \E t \in DOMAIN callers :
       /\ callers[t].pc = "idle"
       /\ \E bl \in ForkCandidates :
          \E r \in {addNewBlock(Cur(NoG), bl)} :
            /\ InstallSt(r.St)
            /\ last' = Report("addNewBlock", r.ok, r.bvc, r.St.g)
            /\ panicked' = (panicked \/ r.St.g.rollback = "failed")
            /\ IF r.ok /\ r.bvc.m_added_to_main_chain
               THEN /\ commits' = commits + 1
                    /\ callers' = [callers EXCEPT ![t] = [pc |-> "notify", commit |-> commits + 1]]
               ELSE UNCHANGED <<callers, commits>>
  /\ UNCHANGED <<blockchainUpdated, lockers, walletVars, systemVars, nodeVars>>

\* m_observerManager.notify(&IBlockchainStorageObserver::blockchainUpdated)
\* by a thread that has changed the main chain, and its return
CallerNotifies ==
  /\ \E t \in DOMAIN callers :
       /\ callers[t].pc = "notify"
       /\ blockchainUpdated' = Append(blockchainUpdated, callers[t].commit)
       /\ callers' = [callers EXCEPT ![t] = [pc |-> "idle", commit |-> 0]]
  /\ UNCHANGED <<engineVars, last, panicked, commits, lockers, walletVars, systemVars, nodeVars>>

NextObservers == CallerAddsBlock \/ CallerNotifies

SpecObservers == InitObservers /\ [][NextObservers]_vars

\* C20: the observers receive the notifications in the order in which the
\* changes of the main chain they are about were committed, one for each,
\* also when several threads call addNewBlock
C20_NotificationsInCommitOrder ==
  \A i, j \in DOMAIN blockchainUpdated :
    i < j => blockchainUpdated[i] < blockchainUpdated[j]

(***************************************************************************)
(* The mutex of the pool and the mutex of the chain: threads are inside    *)
(* addNewBlock, inside the pool's add_tx for an incoming transaction or    *)
(* inside a query of the chain. Both mutexes are recursive.                *)
(***************************************************************************)
\* the threads that may be inside a call
MaxLockers == 2

Lock(mutex) == <<"lock", mutex>>
Unlock(mutex) == <<"unlock", mutex>>

\* the guards of addNewBlock taken in the opposite order
addNewBlockLocksChainFirst == <<Lock("m_blockchain_lock"), Lock("m_tx_pool")>>

\* addNewBlock: the two guards of its block, in the order of their declaration
addNewBlockLocks == <<Lock("m_tx_pool"), Lock("m_blockchain_lock")>>

\* the guards of a block are released in the opposite order
RECURSIVE Released(_)
Released(locks) ==
  IF locks = <<>> THEN <<>>
  ELSE Append(Released(Tail(locks)), Unlock(Head(locks)[2]))

\* tx_memory_pool::take_tx and tx_memory_pool::add_tx for a transaction kept
\* by a block: the pool holds its mutex for the call
poolCallLocks == <<Lock("m_tx_pool"), Unlock("m_tx_pool")>>

\* pushBlock(blockData, id, bvc, height): loadTransactions, then
\* pushBlock(blockData, transactions, id, bvc) under the mutex of the chain,
\* then (failed = TRUE) saveTransactions
pushBlockLocks(failed) ==
  poolCallLocks \o <<Lock("m_blockchain_lock"), Unlock("m_blockchain_lock")>>
    \o (IF failed THEN poolCallLocks ELSE <<>>)

\* handle_alternative_block that runs switch_to_alternative_blockchain: both
\* guard the chain; popBlock hands the transactions to the pool, pushBlock
\* connects the alternative block
handleAlternativeBlockLocks ==
  <<Lock("m_blockchain_lock"), Lock("m_blockchain_lock")>>
    \o poolCallLocks \o pushBlockLocks(FALSE)
    \o <<Unlock("m_blockchain_lock"), Unlock("m_blockchain_lock")>>

\* tx_memory_pool::add_tx for an incoming transaction: under its mutex the
\* pool asks the chain to check the inputs (Blockchain::checkTransactionInputs)
addTxLocks ==
  <<Lock("m_tx_pool"), Lock("m_blockchain_lock"), Unlock("m_blockchain_lock"),
    Unlock("m_tx_pool")>>

\* the mutex operations of a call, in program order
LocksOfCall(op) ==
  IF op = "addNewBlock/pushBlock"
  THEN addNewBlockLocks \o pushBlockLocks(FALSE) \o Released(addNewBlockLocks)
  ELSE IF op = "addNewBlock/pushBlock fails"
  THEN addNewBlockLocks \o pushBlockLocks(TRUE) \o Released(addNewBlockLocks)
  ELSE IF op = "addNewBlock/handle_alternative_block"
  THEN addNewBlockLocks \o handleAlternativeBlockLocks \o Released(addNewBlockLocks)
  ELSE IF op = "add_tx" THEN addTxLocks
  ELSE <<Lock("m_blockchain_lock"), Unlock("m_blockchain_lock")>>  \* haveTransaction

Calls ==
  {"addNewBlock/pushBlock", "addNewBlock/pushBlock fails",
   "addNewBlock/handle_alternative_block", "add_tx", "haveTransaction"}

\* the thread that holds the mutex is another one than t
HeldByAnother(t, mutex) ==
  \E u \in DOMAIN lockers : u # t /\ mutex \in Range(lockers[u].held)

\* the operation the thread is at
NextLockOp(t) == LocksOfCall(lockers[t].op)[lockers[t].pc]

\* the thread has made the operation it was at; it leaves after the last one
Advanced(t, held) ==
  IF lockers[t].pc = Len(LocksOfCall(lockers[t].op))
  THEN [u \in (DOMAIN lockers) \ {t} |-> lockers[u]]
  ELSE [lockers EXCEPT ![t] = [@ EXCEPT !.pc = @ + 1, !.held = held]]

\* held without its last element equal to mutex
RECURSIVE WithoutLast(_, _)
WithoutLast(held, mutex) ==
  IF held = <<>> THEN <<>>
  ELSE IF Last(held) = mutex THEN SubSeq(held, 1, Len(held) - 1)
  ELSE Append(WithoutLast(SubSeq(held, 1, Len(held) - 1), mutex), Last(held))

InitLocks == Holds(GenesisSt)

\* a thread enters a call
LockerCalls ==
  /\ \E t \in (1..MaxLockers) \ DOMAIN lockers, op \in Calls :
       lockers' = Put(lockers, t, [op |-> op, pc |-> 1, held |-> <<>>])
  /\ UNCHANGED <<engineVars, last, panicked, callerVars, walletVars, systemVars, nodeVars>>

\* a thread takes a mutex that no other thread holds
LockerLocks ==
  /\ \E t \in DOMAIN lockers :
       /\ NextLockOp(t)[1] = "lock"
       /\ ~HeldByAnother(t, NextLockOp(t)[2])
       /\ lockers' = Advanced(t, Append(lockers[t].held, NextLockOp(t)[2]))
  /\ UNCHANGED <<engineVars, last, panicked, callerVars, walletVars, systemVars, nodeVars>>

\* a thread releases a mutex
LockerUnlocks ==
  /\ \E t \in DOMAIN lockers :
       /\ NextLockOp(t)[1] = "unlock"
       /\ lockers' = Advanced(t, WithoutLast(lockers[t].held, NextLockOp(t)[2]))
  /\ UNCHANGED <<engineVars, last, panicked, callerVars, walletVars, systemVars, nodeVars>>

NextLocks == LockerCalls \/ LockerLocks \/ LockerUnlocks

SpecLocks == InitLocks /\ [][NextLocks]_vars

\* the place of the first mutex of that name among the held ones
FirstHeld(held, mutex) == CHOOSE i \in DOMAIN held : held[i] = mutex /\ \A j \in 1..(i - 1) : held[j] # mutex

\* the thread waits for a mutex that thread u holds
WaitsFor(t, u) ==
  /\ t # u
  /\ NextLockOp(t)[1] = "lock"
  /\ NextLockOp(t)[2] \in Range(lockers[u].held)

P2P_CONNECTION_MAX_WRITE_BUFFER_SIZE == 64
\* in milliseconds
P2P_DEFAULT_INVOKE_TIMEOUT == 120000
\* the sleep of the timeout monitor, in milliseconds
TimeoutLoopSleep == 10000
P2P_MINIMUM_VERSION == 1
\* m_network_id and m_config.m_peer_id of this node
m_network_id == 1
m_peer_id == 1

\* P2pConnectionContext::TimePoint()
TimePoint == 0
\* P2pConnectionContext::Clock::now(), in milliseconds
Now(time) == time * TimeoutLoopSleep

\* CryptoNoteConnectionContext::state
ConnectionStates ==
  {"state_befor_handshake", "state_synchronizing", "state_idle", "state_normal",
   "state_sync_required", "state_pool_sync_required", "state_shutdown"}

\* the place of a state in the order
\* before_handshake -> {synchronizing | idle | normal} ->
\* {sync_required | pool_sync_required} -> shutdown
StateOrder(state) ==
  CASE state = "state_befor_handshake" -> 0
    [] state \in {"state_synchronizing", "state_idle", "state_normal"} -> 1
    [] state \in {"state_sync_required", "state_pool_sync_required"} -> 2
    [] state = "state_shutdown" -> 3

\* P2pMessage: n tells the pushes on a connection apart
P2pMessage(type, command, size, n) == [type |-> type, command |-> command, size |-> size, n |-> n]

\* no response to a ping
NoPing == [status |-> "none", peer_id |-> 0]
\* no handshake being handled
NoHandshake == [command |-> "none"]

\* a P2pConnectionContext as acceptLoop and
\* try_to_connect_and_handshake_with_new_peer construct it, with the places
\* of its two tasks: handler ("readCommand": reading a command, "try_ping":
\* waiting for the back-ping of the handshake in pending, "wait": waiting for
\* the write task to end) and writer ("popBuffer": waiting for the queue,
\* "send": writing the first of msgs to the socket, "finished"). states lists
\* the changes of m_state, pushes counts the calls of pushMessage, accepted
\* lists the messages pushMessage accepted, sent lists the messages written
\* to the socket, commands counts the commands read,
\* handled lists the commands handled, failedAt is the command that carried
\* a block without proof of work.
P2pConnectionContext(m_is_income, m_remote_ip, m_remote_port) ==
  [m_state |-> "state_befor_handshake", m_is_income |-> m_is_income,
   m_remote_ip |-> m_remote_ip, m_remote_port |-> m_remote_port, peerId |-> 0,
   writeQueue |-> <<>>, writeQueueSize |-> 0, stopped |-> FALSE,
   writeOperationStartTime |-> TimePoint,
   handler |-> "readCommand", interrupted |-> FALSE, pending |-> NoHandshake,
   writer |-> "popBuffer", writeInterrupted |-> FALSE, msgs |-> <<>>,
   states |-> {}, pushes |-> 0, accepted |-> <<>>, sent |-> <<>>, commands |-> 0,
   handled |-> <<>>, failedAt |-> 0]

\* an assignment to m_state
SetState(ctx, state) ==
  IF ctx.m_state = state THEN ctx
  ELSE [ctx EXCEPT !.m_state = state, !.states = @ \cup {<<ctx.m_state, state>>}]

\* interrupt that stops the write queue and leaves the task of
\* connectionHandler alone
interruptQueueOnly(ctx) == [ctx EXCEPT !.stopped = TRUE]

\* P2pConnectionContext::interrupt: context is the task of connectionHandler
interrupt(ctx) == [ctx EXCEPT !.stopped = TRUE, !.interrupted = TRUE]

\* pushMessage that puts the message at the front of the queue
pushMessageFront(ctx, msg) ==
  LET counted == [ctx EXCEPT !.writeQueueSize = @ + msg.size]
  IN IF counted.writeQueueSize > P2P_CONNECTION_MAX_WRITE_BUFFER_SIZE
     THEN [ctx |-> interrupt(counted), ok |-> FALSE]
     ELSE [ctx |-> [counted EXCEPT !.writeQueue = <<msg>> \o @], ok |-> TRUE]

\* P2pConnectionContext::pushMessage
pushMessage(ctx, msg) ==
  LET counted == [ctx EXCEPT !.writeQueueSize = @ + msg.size]
  IN IF counted.writeQueueSize > P2P_CONNECTION_MAX_WRITE_BUFFER_SIZE
     THEN [ctx |-> interrupt(counted), ok |-> FALSE]
     ELSE [ctx |-> [counted EXCEPT !.writeQueue = Append(@, msg)], ok |-> TRUE]

\* the bytes of the messages of a queue
RECURSIVE QueuedBytes(_)
QueuedBytes(queue) == IF queue = <<>> THEN 0 ELSE Head(queue).size + QueuedBytes(Tail(queue))

\* what a call of pushMessage did: the size pushed, the bytes the queue held,
\* the answer, whether the message is in the queue after the call, whether
\* the connection is interrupted after it and whether it was stopped before
PushRecord(before, msg, r) ==
  [size |-> msg.size, queued |-> QueuedBytes(before.writeQueue), ok |-> r.ok,
   enqueued |-> \E i \in DOMAIN r.ctx.writeQueue : r.ctx.writeQueue[i] = msg,
   interrupted |-> r.ctx.stopped /\ r.ctx.interrupted,
   stopped |-> before.stopped]

\* a run of a task on a connection: the context, the calls of pushMessage of
\* the run and the peer lists
Run(ctx, push, peerlist) == [ctx |-> ctx, push |-> push, m_peerlist |-> peerlist]

\* a message of the type, the command and the size is pushed
Pushed(run, type, command, size) ==
  LET msg == P2pMessage(type, command, size, run.ctx.pushes + 1)
      before == [run.ctx EXCEPT !.pushes = @ + 1]
      r == pushMessage(before, msg)
  IN [run EXCEPT !.ctx = [r.ctx EXCEPT !.accepted = IF r.ok THEN Append(@, msg.n) ELSE @],
                 !.push = Append(@, PushRecord(before, msg, r))]

\* P2pConnectionContext::popBuffer from the end of its wait on: msgs is the
\* queue, which is left empty
popBuffer(ctx, time) ==
  [ctx EXCEPT !.msgs = ctx.writeQueue, !.writeQueue = <<>>, !.writeQueueSize = 0,
              !.writeOperationStartTime = Now(time)]

\* writeDuration that never tells a write in progress
writeDurationZero(ctx, now) == 0

\* P2pConnectionContext::writeDuration, in milliseconds
writeDuration(ctx, now) ==
  IF ctx.writeOperationStartTime = TimePoint THEN 0 ELSE now - ctx.writeOperationStartTime

\* drop_connection that leaves the state alone
drop_connection_keeps_state(ctx, add_fail) == ctx

\* NodeServer::drop_connection
drop_connection(ctx, add_fail) == SetState(ctx, "state_shutdown")

\* NodeServer::is_addr_recently_failed
is_addr_recently_failed(address_ip) == address_ip \in DOMAIN m_host_fails_score

(***************************************************************************)
(* The peer lists.                                                         *)
(***************************************************************************)
\* a PeerlistEntry; by tells the caller that made it and ping is the answer
\* of the back-ping the caller had
PeerlistEntry(ip, port, id, by, ping) ==
  [adr |-> <<ip, port>>, id |-> id, by |-> by, ping |-> ping]

\* PeerlistManager::append_with_peer_white: the white list has one entry for
\* an address
append_with_peer_white(peerlist, pe) ==
  [white |-> Put(peerlist.white, pe.adr, pe), gray |-> peerlist.gray \ {pe.adr}]

\* PeerlistManager::set_peer_just_seen
set_peer_just_seen(peerlist, peer, ip, port) ==
  append_with_peer_white(peerlist, PeerlistEntry(ip, port, peer, "set_peer_just_seen", NoPing))

\* PeerlistManager::merge_peerlist: the addresses learned from a peer
merge_peerlist(peerlist, outer) ==
  [peerlist EXCEPT !.gray = @ \cup (outer \ DOMAIN peerlist.white)]

\* NodeServer::handle_remote_peerlist: fix_time_delta refuses a list with an
\* entry seen after the peer's own time
handle_remote_peerlist(peerlist, rsp) ==
  IF rsp.future THEN [ok |-> FALSE, m_peerlist |-> peerlist]
  ELSE [ok |-> TRUE, m_peerlist |-> merge_peerlist(peerlist, rsp.local_peerlist)]

\* try_ping that does not compare the peer id of the answer
try_ping_any_peer(node_data, rsp) == node_data.my_port # 0 /\ rsp.status = "OK"

\* NodeServer::try_ping from the answer of the peer at (remote ip, my_port);
\* NoPing when the address is not allowed, the connection fails or the ping
\* times out
try_ping(node_data, rsp) ==
  /\ node_data.my_port # 0
  /\ ~(rsp.status # "OK" \/ node_data.peer_id # rsp.peer_id)

(***************************************************************************)
(* The payload handler (CryptoNoteProtocolHandler).                        *)
(***************************************************************************)
\* the states the payload handler may put a connection in: those not before
\* the present one in the order of the states; it asks for the end of a
\* connection through drop_connection or by returning false
PayloadStates(ctx) ==
  {state \in ConnectionStates \ {"state_shutdown"} : StateOrder(state) >= StateOrder(ctx.m_state)}

\* the outcomes of the payload handler on the data of a peer
PayloadOutcomes(ctx) == {"fail"} \cup PayloadStates(ctx)

\* process_payload_sync_data when it returns true
process_payload_sync_data(ctx, payload) == SetState(ctx, payload)

\* the sizes of the messages, in MiB
SmallMessage == 8
MessageSizes == {24, 48}

\* start_sync asks the peer for its chain
start_sync(run) == Pushed(run, "NOTIFY", "NOTIFY_REQUEST_CHAIN", SmallMessage)

\* requestMissingPoolTransactions asks the peer for its pool
requestMissingPoolTransactions(run) == Pushed(run, "NOTIFY", "NOTIFY_REQUEST_TX_POOL", SmallMessage)

\* handleCommand of the payload handler on a notification that carries no
\* block: it may answer with a notification
payloadHandleCommand(run, cmd) ==
  LET moved == IF cmd.payload = "fail" THEN drop_connection(run.ctx, FALSE)
               ELSE SetState(run.ctx, cmd.payload)
      r == [run EXCEPT !.ctx = moved]
  IN IF cmd.payload # "fail" /\ cmd.answer # 0
     THEN Pushed(r, "NOTIFY", "NOTIFY_RESPONSE", cmd.answer)
     ELSE r

(***************************************************************************)
(* The handlers of the node's commands.                                    *)
(***************************************************************************)
\* NodeServer::handleTimedSyncResponse
handleTimedSyncResponse(run, rsp) ==
  IF ~rsp.decoded THEN [run |-> run, ok |-> FALSE]
  ELSE LET merged == handle_remote_peerlist(run.m_peerlist, rsp)
       IN IF ~merged.ok THEN [run |-> run, ok |-> FALSE]
          ELSE LET seen == IF ~run.ctx.m_is_income
                           THEN set_peer_just_seen(merged.m_peerlist, run.ctx.peerId,
                                                   run.ctx.m_remote_ip, run.ctx.m_remote_port)
                           ELSE merged.m_peerlist
               IN IF rsp.payload = "fail"
                  THEN [run |-> [run EXCEPT !.m_peerlist = seen], ok |-> FALSE]
                  ELSE [run |-> [run EXCEPT !.m_peerlist = seen,
                                            !.ctx = process_payload_sync_data(@, rsp.payload)],
                        ok |-> TRUE]

\* NodeServer::handle_timed_sync
handle_timed_sync(run, arg) ==
  IF arg.payload = "fail" THEN [run EXCEPT !.ctx = SetState(@, "state_shutdown")]
  ELSE [run EXCEPT !.ctx = process_payload_sync_data(@, arg.payload)]

\* NodeServer::handle_handshake up to the back-ping
handle_handshake(run, arg) ==
  LET context == run.ctx
  IN IF arg.network_id # m_network_id
     THEN [run EXCEPT !.ctx = SetState(@, "state_shutdown")]
     ELSE IF arg.version < P2P_MINIMUM_VERSION
     THEN [run EXCEPT !.ctx = SetState(@, "state_shutdown")]
     ELSE IF ~context.m_is_income
     THEN [run EXCEPT !.ctx = SetState(@, "state_shutdown")]
     ELSE IF context.peerId # 0
     THEN [run EXCEPT !.ctx = SetState(@, "state_shutdown")]
     ELSE IF arg.payload = "fail"
     THEN [run EXCEPT !.ctx = SetState(@, "state_shutdown")]
     ELSE LET synced == [process_payload_sync_data(context, arg.payload) EXCEPT !.peerId = arg.peer_id]
          IN IF arg.peer_id # m_peer_id /\ arg.my_port # 0
             THEN [run EXCEPT !.ctx = [synced EXCEPT !.handler = "try_ping", !.pending = arg]]
             ELSE [run EXCEPT !.ctx = synced]

\* handle_handshake from the answer to the back-ping
handle_handshake_pinged(run, arg, rsp) ==
  LET context == [run.ctx EXCEPT !.handler = "readCommand", !.pending = NoHandshake]
  IN IF try_ping(arg, rsp)
     THEN [run EXCEPT !.ctx = context,
                      !.m_peerlist = append_with_peer_white(@,
                         PeerlistEntry(context.m_remote_ip, arg.my_port, arg.peer_id,
                                       "handle_handshake", rsp))]
     ELSE [run EXCEPT !.ctx = context]

\* NodeServer::handleCommand
handleCommand(run, cmd) ==
  IF cmd.isResponse /\ cmd.command = "COMMAND_TIMED_SYNC"
  THEN LET r == handleTimedSyncResponse(run, cmd)
       IN IF r.ok THEN r.run ELSE [r.run EXCEPT !.ctx = SetState(@, "state_shutdown")]
  ELSE IF cmd.command = "COMMAND_HANDSHAKE" THEN handle_handshake(run, cmd)
  ELSE IF cmd.command = "COMMAND_TIMED_SYNC" THEN handle_timed_sync(run, cmd)
  ELSE IF cmd.command = "COMMAND_PING" THEN run
  ELSE payloadHandleCommand(run, cmd)

(***************************************************************************)
(* connectionHandler and writeHandler.                                     *)
(***************************************************************************)
\* the command read is the next of the connection
readCommand(ctx) ==
  [ctx EXCEPT !.commands = @ + 1, !.handled = Append(@, ctx.commands + 1)]

\* the end of connectionHandler up to writeContext.wait()
connectionHandlerCloses(ctx) ==
  [interrupt(ctx) EXCEPT !.writeInterrupted = (ctx.writer # "finished"), !.handler = "wait"]

\* the top of the loop with a move from sync_required to idle
connectionHandlerLoopToIdle(run) ==
  IF run.ctx.m_state = "state_sync_required"
  THEN start_sync([run EXCEPT !.ctx = SetState(@, "state_idle")])
  ELSE run

\* the top of the loop of connectionHandler, up to readCommand
connectionHandlerLoop(run) ==
  IF run.ctx.m_state = "state_sync_required"
  THEN start_sync([run EXCEPT !.ctx = SetState(@, "state_synchronizing")])
  ELSE IF run.ctx.m_state = "state_pool_sync_required"
  THEN requestMissingPoolTransactions([run EXCEPT !.ctx = SetState(@, "state_normal")])
  ELSE run

\* connectionHandler after handleCommand: the reply, the test of the state,
\* and the loop
connectionHandlerHandled(run, cmd) ==
  LET replied == IF cmd.needReply THEN Pushed(run, "REPLY", cmd.command, SmallMessage) ELSE run
  IN IF replied.ctx.m_state = "state_shutdown"
     THEN [replied EXCEPT !.ctx = connectionHandlerCloses(@)]
     ELSE connectionHandlerLoop(replied)

\* connectionHandler from the command read to its next wait
connectionHandlerCommand(run, cmd) ==
  LET handled == handleCommand([run EXCEPT !.ctx = readCommand(@)], cmd)
  IN IF handled.ctx.handler = "try_ping" THEN handled ELSE connectionHandlerHandled(handled, cmd)

\* writeHandler at popBuffer that keeps the start time of the last batch
\* while it waits
writeHandlerPopsKeepsStartTime(ctx, time) ==
  IF ctx.writeQueue = <<>> /\ ~ctx.stopped
  THEN [ctx EXCEPT !.writer = "popBuffer", !.msgs = <<>>]
  ELSE LET popped == popBuffer(ctx, time)
       IN [popped EXCEPT !.writer = IF popped.msgs = <<>> THEN "finished" ELSE "send"]

\* writeHandler at popBuffer: it waits while the queue is empty and the
\* connection is not stopped, ends with an empty batch and writes otherwise
writeHandlerPops(ctx, time) ==
  IF ctx.writeQueue = <<>> /\ ~ctx.stopped
  THEN [ctx EXCEPT !.writeOperationStartTime = TimePoint, !.writer = "popBuffer", !.msgs = <<>>]
  ELSE LET popped == popBuffer(ctx, time)
       IN [popped EXCEPT !.writer = IF popped.msgs = <<>> THEN "finished" ELSE "send"]

\* writeHandler when the socket has taken the first message of the batch
writeHandlerSent(ctx, time) ==
  LET sent == [ctx EXCEPT !.sent = Append(@, Head(ctx.msgs).n), !.msgs = Tail(@)]
  IN IF sent.msgs # <<>> THEN sent ELSE writeHandlerPops(sent, time)

\* NodeServer::handshake on the answer rsp of the peer, for a connection
\* that is to be kept
handshake(context, peerlist, rsp) ==
  IF ~rsp.invoked THEN [ok |-> FALSE, ctx |-> context, m_peerlist |-> peerlist]
  ELSE IF rsp.network_id # m_network_id
  THEN [ok |-> FALSE, ctx |-> context, m_peerlist |-> peerlist]
  ELSE IF rsp.version < P2P_MINIMUM_VERSION
  THEN [ok |-> FALSE, ctx |-> context, m_peerlist |-> peerlist]
  ELSE LET merged == handle_remote_peerlist(peerlist, rsp)
       IN IF ~merged.ok THEN [ok |-> FALSE, ctx |-> context, m_peerlist |-> peerlist]
          ELSE IF rsp.payload = "fail"
          THEN [ok |-> FALSE, ctx |-> context, m_peerlist |-> merged.m_peerlist]
          ELSE [ok |-> rsp.peer_id # m_peer_id,
                ctx |-> [process_payload_sync_data(context, rsp.payload) EXCEPT !.peerId = rsp.peer_id],
                m_peerlist |-> set_peer_just_seen(merged.m_peerlist, rsp.peer_id,
                                                  context.m_remote_ip, context.m_remote_port)]

\* NodeServer::try_to_connect_and_handshake_with_new_peer, for a connection
\* that is to be kept, once the peer at na has accepted the connection
try_to_connect_and_handshake_with_new_peer(connections, peerlist, id, na, rsp) ==
  LET shaken == handshake(P2pConnectionContext(FALSE, na[1], na[2]), peerlist, rsp)
  IN IF ~shaken.ok THEN [ok |-> FALSE, m_connections |-> connections, m_peerlist |-> shaken.m_peerlist]
     ELSE [ok |-> TRUE,
           m_connections |-> Put(connections, id, shaken.ctx),
           m_peerlist |-> append_with_peer_white(shaken.m_peerlist,
              PeerlistEntry(na[1], na[2], shaken.ctx.peerId,
                            "try_to_connect_and_handshake_with_new_peer", NoPing))]

\* the connections relay_notify_to_all and externalRelayNotifyToList reach
RelayTargets(connections, excluded) ==
  {id \in DOMAIN connections \ excluded :
     /\ connections[id].peerId # 0
     /\ connections[id].m_state \in {"state_normal", "state_synchronizing"}}

\* the connections timedSync reaches
TimedSyncTargets(connections) ==
  {id \in DOMAIN connections :
     /\ connections[id].peerId # 0
     /\ connections[id].m_state \in {"state_normal", "state_idle"}}

\* a message is pushed on each of the connections of ids, in the order of
\* the connection table
RECURSIVE PushedOnEach(_, _, _, _, _, _)
PushedOnEach(connections, push, ids, type, command, size) ==
  IF ids = {} THEN [m_connections |-> connections, push |-> push]
  ELSE LET id == CHOOSE i \in ids : \A j \in ids : i <= j
           run == Pushed(Run(connections[id], push, EmptyMap), type, command, size)
       IN PushedOnEach([connections EXCEPT ![id] = run.ctx], run.push, ids \ {id},
                       type, command, size)

\* NodeServer::relay_notify_to_all
relay_notify_to_all(connections, push, size, excluded) ==
  PushedOnEach(connections, push, RelayTargets(connections, excluded),
               "NOTIFY", "NOTIFY_NEW_BLOCK", size)

\* NodeServer::timedSync
timedSync(connections) ==
  PushedOnEach(connections, <<>>, TimedSyncTargets(connections),
               "COMMAND", "COMMAND_TIMED_SYNC", SmallMessage)

\* the pass of NodeServer::timeoutLoop over the connections after a sleep
timeoutLoop(connections, now) ==
  [id \in DOMAIN connections |->
     IF writeDuration(connections[id], now) > P2P_DEFAULT_INVOKE_TIMEOUT
     THEN interrupt(connections[id])
     ELSE connections[id]]

(***************************************************************************)
(* The node with its connections: peers connect, send commands and answer  *)
(* pings, the node connects to peers, relays blocks and runs its timers.   *)
(***************************************************************************)
\* the connections a node has in its life, and those open at a time
MaxConnections == 2
MaxOpen == 1
\* the calls of pushMessage on a connection
MaxPushes == 4
\* the commands a peer sends on a connection
MaxCommands == 2
\* the sleeps of the timeout monitor while a write is timed
MaxClock == 14
\* the sleeps of the timeout monitor in a row while no other task runs
Sleeps == {12, 13}

ConnectionIds == 1..MaxConnections
Ips == {1, 2}
\* the addresses peers connect from
RemoteIps == {2}
\* the port a peer listens on, and the one an incoming connection comes from
ListenPort == 1
EphemeralPort == 9
Addresses == {<<ip, ListenPort>> : ip \in Ips}
PeerIds == {1, 2}

\* the handshake requests of a peer: well-formed ones, one of another
\* network and one of an old version
HandshakeRequests(ctx) ==
  {[command |-> "COMMAND_HANDSHAKE", isResponse |-> FALSE, needReply |-> TRUE,
    network_id |-> d[1], version |-> d[2], peer_id |-> d[3], my_port |-> d[4], payload |-> o] :
      d \in {<<1, 1, 1, ListenPort>>, <<1, 1, 2, 0>>, <<1, 1, 2, ListenPort>>,
             <<2, 1, 2, ListenPort>>, <<1, 0, 2, ListenPort>>},
      o \in PayloadOutcomes(ctx)}

TimedSyncRequests(ctx) ==
  {[command |-> "COMMAND_TIMED_SYNC", isResponse |-> FALSE, needReply |-> TRUE, payload |-> o] :
      o \in PayloadOutcomes(ctx)}

TimedSyncResponses(ctx) ==
  {[command |-> "COMMAND_TIMED_SYNC", isResponse |-> TRUE, needReply |-> FALSE,
    decoded |-> d[1], future |-> d[2], local_peerlist |-> d[3], payload |-> o] :
      d \in {<<FALSE, FALSE, {}>>, <<TRUE, TRUE, {}>>, <<TRUE, FALSE, {}>>,
             <<TRUE, FALSE, {<<2, ListenPort>>}>>},
      o \in PayloadOutcomes(ctx)}

Pings == {[command |-> "COMMAND_PING", isResponse |-> FALSE, needReply |-> TRUE]}

Notifications(ctx) ==
  {[command |-> "NOTIFY", isResponse |-> FALSE, needReply |-> FALSE, payload |-> o, answer |-> a] :
      o \in PayloadOutcomes(ctx), a \in {0} \cup MessageSizes}

\* the commands of a peer that keeps to the protocol or sends data the
\* payload handler refuses
NodeCommands(ctx) ==
  {[command |-> "COMMAND_HANDSHAKE", isResponse |-> FALSE, needReply |-> TRUE,
    network_id |-> 1, version |-> 1, peer_id |-> 2, my_port |-> port, payload |-> o] :
      port \in {0, ListenPort},
      o \in {"fail", "state_normal", "state_sync_required"} \cap PayloadOutcomes(ctx)}
    \cup Pings
    \cup {[command |-> "NOTIFY", isResponse |-> FALSE, needReply |-> FALSE, payload |-> o, answer |-> a] :
            o \in {"fail", ctx.m_state}, a \in {0} \cup MessageSizes}

\* the commands a peer may send on a connection
Commands(ctx) ==
  HandshakeRequests(ctx) \cup TimedSyncRequests(ctx) \cup TimedSyncResponses(ctx)
    \cup Pings \cup Notifications(ctx)

\* the answers to a back-ping
PingAnswers == {NoPing} \cup {[status |-> st, peer_id |-> p] : st \in {"OK", "BUSY"}, p \in PeerIds}

\* the answers of a peer to the handshake of this node
HandshakeAnswers(ctx) ==
  {[invoked |-> FALSE]}
    \cup {[invoked |-> TRUE, network_id |-> d[1], version |-> d[2], peer_id |-> d[3],
           future |-> d[4], local_peerlist |-> d[5], payload |-> o] :
            d \in {<<1, 1, 2, FALSE, {}>>, <<1, 1, 2, FALSE, {<<1, ListenPort>>}>>,
                   <<1, 1, 1, FALSE, {}>>, <<2, 1, 2, FALSE, {}>>, <<1, 0, 2, FALSE, {}>>,
                   <<1, 1, 2, TRUE, {}>>},
            o \in PayloadOutcomes(ctx)}

\* what a step of the node did
NodeReport(op, id, push) == [op |-> op, id |-> id, push |-> push]

\* the id of the next connection (in the code a random uuid), while fewer
\* than open connections are open
FreshIdsOf(open) ==
  LET unused == ConnectionIds \ (DOMAIN m_connections \cup Range(erasedConnections))
  IN IF unused = {} \/ Cardinality(DOMAIN m_connections) >= open THEN {}
     ELSE {CHOOSE i \in unused : \A j \in unused : i <= j}

FreshIds == FreshIdsOf(MaxOpen)

InitNode == Holds(GenesisSt)

\* NodeServer::acceptLoop accepts a connection and gives it an id of ids
Accepts(ids) ==
  \E id \in ids, ip \in RemoteIps :
    /\ m_connections' = Put(m_connections, id, P2pConnectionContext(TRUE, ip, EphemeralPort))
    /\ last' = NodeReport("acceptLoop", id, <<>>)
    /\ UNCHANGED <<engineVars, panicked, callerVars, lockers, walletVars, systemVars, clock, m_peerlist,
                   m_host_fails_score, erasedConnections>>

\* a peer connects
AcceptConnection == Accepts(FreshIds)

\* the connection maker connects to a peer whose address has not failed
\* recently
Connect ==
  \E id \in FreshIds, na \in Addresses :
    /\ ~is_addr_recently_failed(na[1])
    /\ \E rsp \in HandshakeAnswers(P2pConnectionContext(FALSE, na[1], na[2])) :
         LET r == try_to_connect_and_handshake_with_new_peer(m_connections, m_peerlist, id, na, rsp)
         IN /\ m_connections' = r.m_connections
            /\ m_peerlist' = r.m_peerlist
            /\ last' = NodeReport("try_to_connect_and_handshake_with_new_peer", id, <<>>)
    /\ UNCHANGED <<engineVars, panicked, callerVars, lockers, walletVars, systemVars, clock, m_host_fails_score,
                   erasedConnections>>

\* the step of a task of connection id leaves the run r
InstallRun(id, r, op) ==
  /\ m_connections' = [m_connections EXCEPT ![id] = r.ctx]
  /\ m_peerlist' = r.m_peerlist
  /\ last' = NodeReport(op, id, r.push)
  /\ UNCHANGED <<engineVars, panicked, callerVars, lockers, walletVars, systemVars, clock, m_host_fails_score,
                 erasedConnections>>

\* the task of connection id is at the place pc of connectionHandler
HandlerAt(id, pc) == id \in DOMAIN m_connections /\ m_connections[id].handler = pc

\* connectionHandler reads a command of commands and handles it
HandlerReadsOf(id, commands) ==
  /\ ~m_connections[id].interrupted
  /\ m_connections[id].commands < MaxCommands
  /\ m_connections[id].pushes + 2 <= MaxPushes
  /\ \E cmd \in commands :
       InstallRun(id, connectionHandlerCommand(Run(m_connections[id], <<>>, m_peerlist), cmd),
                  "connectionHandler")

\* connectionHandler reads a command of the peer and handles it
HandlerReads(id) ==
  /\ HandlerAt(id, "readCommand")
  /\ HandlerReadsOf(id, NodeCommands(m_connections[id]))

\* the back-ping of a handshake ends
HandlerPinged(id) ==
  /\ HandlerAt(id, "try_ping")
  /\ ~m_connections[id].interrupted
  /\ \E rsp \in PingAnswers :
       LET arg == m_connections[id].pending
       IN InstallRun(id, connectionHandlerHandled(
                           handle_handshake_pinged(Run(m_connections[id], <<>>, m_peerlist), arg, rsp),
                           arg),
                     "handle_handshake")

\* the peer closes the connection: readCommand returns false
HandlerReadsEnd(id) ==
  /\ HandlerAt(id, "readCommand")
  /\ ~m_connections[id].interrupted
  /\ InstallRun(id, Run(connectionHandlerCloses(m_connections[id]), <<>>, m_peerlist),
                "connectionHandler")

\* the interrupted task of connectionHandler leaves its wait
HandlerInterrupted(id) ==
  /\ id \in DOMAIN m_connections
  /\ m_connections[id].handler \in {"readCommand", "try_ping"}
  /\ m_connections[id].interrupted
  /\ InstallRun(id, Run(connectionHandlerCloses(m_connections[id]), <<>>, m_peerlist),
                "connectionHandler")

\* the write task has ended: on_connection_close and m_connections.erase
HandlerErases(id) ==
  /\ HandlerAt(id, "wait")
  /\ m_connections[id].writer = "finished"
  /\ m_connections' = [i \in DOMAIN m_connections \ {id} |-> m_connections[i]]
  /\ erasedConnections' = Append(erasedConnections, id)
  /\ last' = [NodeReport("erase", id, <<>>) EXCEPT
                !.op = IF m_connections[id].msgs \o m_connections[id].writeQueue = <<>>
                       THEN "erase" ELSE "erase with messages left"]
  /\ UNCHANGED <<engineVars, panicked, callerVars, lockers, walletVars, systemVars, clock, m_peerlist, m_host_fails_score>>

\* the write task of connection id is at the place pc and not interrupted
WriterAt(id, pc) ==
  /\ id \in DOMAIN m_connections
  /\ m_connections[id].writer = pc
  /\ ~m_connections[id].writeInterrupted

\* writeHandler wakes in popBuffer
WriterPops(id) ==
  /\ WriterAt(id, "popBuffer")
  /\ m_connections[id].writeQueue # <<>> \/ m_connections[id].stopped
  /\ InstallRun(id, Run(writeHandlerPops(m_connections[id], clock), <<>>, m_peerlist), "writeHandler")

\* the socket takes a message
WriterSends(id) ==
  /\ WriterAt(id, "send")
  /\ InstallRun(id, Run(writeHandlerSent(m_connections[id], clock), <<>>, m_peerlist), "writeHandler")

\* the socket fails: writeHandler interrupts the connection and ends
WriterFails(id) ==
  /\ WriterAt(id, "send")
  /\ InstallRun(id, Run([interrupt(m_connections[id]) EXCEPT !.writer = "finished"], <<>>, m_peerlist),
                "writeHandler")

\* the interrupted write task ends
WriterInterrupted(id) ==
  /\ id \in DOMAIN m_connections
  /\ m_connections[id].writer # "finished"
  /\ m_connections[id].writeInterrupted
  /\ InstallRun(id, Run([m_connections[id] EXCEPT !.writer = "finished"], <<>>, m_peerlist),
                "writeHandler")

\* every connection of ids can take one more call of pushMessage
CanPush(ids) == \A id \in ids : m_connections[id].pushes < MaxPushes

\* a block accepted from elsewhere is relayed to the connections
RelayNotify ==
  \E size \in MessageSizes :
    LET targets == RelayTargets(m_connections, {})
        r == relay_notify_to_all(m_connections, <<>>, size, {})
    IN /\ targets # {}
       /\ CanPush(targets)
       /\ m_connections' = r.m_connections
       /\ last' = NodeReport("relay_notify_to_all", 0, r.push)
       /\ UNCHANGED <<engineVars, panicked, callerVars, lockers, walletVars, systemVars, clock, m_peerlist,
                      m_host_fails_score, erasedConnections>>

\* timedSyncLoop wakes
TimedSync ==
  LET targets == TimedSyncTargets(m_connections)
      r == timedSync(m_connections)
  IN /\ targets # {}
     /\ CanPush(targets)
     /\ m_connections' = r.m_connections
     /\ last' = NodeReport("timedSync", 0, r.push)
     /\ UNCHANGED <<engineVars, panicked, callerVars, lockers, walletVars, systemVars, clock, m_peerlist,
                    m_host_fails_score, erasedConnections>>

\* timeoutLoop wakes after its sleeps: a pass after every sleep interrupts
\* the connections the pass after the last sleep does; the sleeps while no
\* write is timed only shift the time
TimeoutLoop ==
  /\ \E id \in DOMAIN m_connections : m_connections[id].writeOperationStartTime # TimePoint
  /\ \E sleeps \in Sleeps :
       /\ clock + sleeps <= MaxClock
       /\ clock' = clock + sleeps
       /\ m_connections' = timeoutLoop(m_connections, Now(clock + sleeps))
  /\ last' = NodeReport("timeoutLoop", 0, <<>>)
  /\ UNCHANGED <<engineVars, panicked, callerVars, lockers, walletVars, systemVars, m_peerlist, m_host_fails_score,
                 erasedConnections>>

NextNode ==
  \/ AcceptConnection
  \/ RelayNotify
  \/ TimedSync
  \/ TimeoutLoop
  \/ \E id \in ConnectionIds :
       \/ HandlerReads(id)
       \/ HandlerPinged(id)
       \/ HandlerReadsEnd(id)
       \/ HandlerInterrupted(id)
       \/ HandlerErases(id)
       \/ WriterPops(id)
       \/ WriterSends(id)
       \/ WriterFails(id)
       \/ WriterInterrupted(id)

SpecNode == InitNode /\ [][NextNode]_vars

\* the dispatcher runs a task that can go on: an interrupted task leaves
\* its wait, and connectionHandler erases the connection when the write task
\* has ended
SpecNodeFair ==
  /\ SpecNode
  /\ \A id \in ConnectionIds :
       /\ WF_vars(HandlerInterrupted(id))
       /\ WF_vars(WriterInterrupted(id))
       /\ WF_vars(HandlerErases(id))

\* C22: a call of pushMessage refuses the message and leaves the connection
\* interrupted exactly when the bytes of the queued messages and of the
\* message pushed exceed P2P_CONNECTION_MAX_WRITE_BUFFER_SIZE; otherwise the
\* message is in the queue after the call and a connection that was not
\* stopped is not interrupted by it.
C22_PushWithinLimit ==
  "push" \in DOMAIN last =>
    \A i \in DOMAIN last.push :
      LET p == last.push[i]
      IN IF p.queued + p.size > P2P_CONNECTION_MAX_WRITE_BUFFER_SIZE
         THEN ~p.ok /\ ~p.enqueued /\ p.interrupted
         ELSE p.ok /\ p.enqueued /\ (p.interrupted => p.stopped)

\* C23: after every pass of the timeout monitor, a connection whose write
\* task has been writing one batch for more than P2P_DEFAULT_INVOKE_TIMEOUT
\* is interrupted.
C23_TimedOutWriteInterrupted ==
  \A id \in DOMAIN m_connections :
    LET ctx == m_connections[id]
    IN ctx.writer = "send" /\ Now(clock) - ctx.writeOperationStartTime > P2P_DEFAULT_INVOKE_TIMEOUT
         => ctx.stopped /\ ctx.interrupted

C23_Witness ==
  /\ "op" \in DOMAIN last /\ last.op = "timeoutLoop"
  /\ \E id \in DOMAIN m_connections :
       /\ m_connections[id].writer = "send"
       /\ Now(clock) - m_connections[id].writeOperationStartTime > P2P_DEFAULT_INVOKE_TIMEOUT
       /\ m_connections[id].stopped

\* the numbers of the messages of a queue
Numbers(queue) == [i \in DOMAIN queue |-> queue[i].n]

\* C24: on a connection the messages written to the socket, then those of
\* the batch being written, then those of the write queue are the messages
\* pushMessage accepted, in the order of the pushes and each once; the
\* commands handled are the commands read, in the order they were read.
C24_FirstInFirstOut ==
  \A id \in DOMAIN m_connections :
    LET ctx == m_connections[id]
    IN /\ ctx.sent \o Numbers(ctx.msgs) \o Numbers(ctx.writeQueue) = ctx.accepted
       /\ \A i, j \in DOMAIN ctx.accepted : i < j => ctx.accepted[i] < ctx.accepted[j]
       /\ ctx.handled = [i \in 1..ctx.commands |-> i]

C24_Witness ==
  \E id \in DOMAIN m_connections :
    /\ Len(m_connections[id].sent) >= 2
    /\ m_connections[id].writeQueue # <<>>
    /\ Len(m_connections[id].handled) >= 2

\* the erasures of connection id
Erasures(id) == {i \in DOMAIN erasedConnections : erasedConnections[i] = id}

HandlerReadsPeer(id) ==
  /\ HandlerAt(id, "readCommand")
  /\ HandlerReadsOf(id, Commands(m_connections[id]))

InitPeers == Holds(GenesisSt)

NextPeers ==
  \/ AcceptConnection
  \/ Connect
  \/ \E id \in ConnectionIds :
       \/ HandlerReadsPeer(id)
       \/ HandlerPinged(id)
       \/ HandlerReadsEnd(id)
       \/ HandlerInterrupted(id)
       \/ HandlerErases(id)
       \/ WriterPops(id)
       \/ WriterSends(id)
       \/ WriterInterrupted(id)

SpecPeers == InitPeers /\ [][NextPeers]_vars

\* C26: a connection starts in before_handshake, every change of its state
\* goes to a state that is not before the old one in the order
\* before_handshake, {synchronizing, idle, normal}, {sync_required,
\* pool_sync_required}, shutdown, and no change leaves shutdown.
C26_StatesMoveForward ==
  \A id \in DOMAIN m_connections :
    LET ctx == m_connections[id]
    IN /\ ctx.states = {} => ctx.m_state = "state_befor_handshake"
       /\ ctx.states # {} => \E m \in ctx.states : m[1] = "state_befor_handshake"
       /\ \A m \in ctx.states :
            /\ StateOrder(m[1]) <= StateOrder(m[2])
            /\ m[1] # "state_shutdown"

\* the changes of state connectionHandler makes at the top of its loop
LoopMoves ==
  {<<"state_sync_required", "state_synchronizing">>, <<"state_pool_sync_required", "state_normal">>}

\* C26 amended: a connection starts in before_handshake and never returns
\* to it, no change leaves shutdown, and the only changes to a state that is
\* before the old one are those of connectionHandler at the top of its
\* loop, from sync_required to synchronizing and from pool_sync_required to
\* normal.
C26_StatesMoveForwardButLoop ==
  \A id \in DOMAIN m_connections :
    LET ctx == m_connections[id]
    IN /\ ctx.states = {} => ctx.m_state = "state_befor_handshake"
       /\ ctx.states # {} => \E m \in ctx.states : m[1] = "state_befor_handshake"
       /\ \A m \in ctx.states :
            /\ m[2] # "state_befor_handshake"
            /\ m[1] # "state_shutdown"
            /\ StateOrder(m[1]) <= StateOrder(m[2]) \/ m \in LoopMoves

C26_Witness ==
  \E id \in DOMAIN m_connections :
    /\ LoopMoves \cap m_connections[id].states # {}
    /\ m_connections[id].m_state = "state_shutdown"

MaxRelayOpen == 2
MaxRelayBlocks == 2

\* the blocks a peer sends: the next block of the chain, with the proof of
\* work or without it
RelayBlocks ==
  {Block(Last(m_blockIndex), Len(m_blocks), ts, w, FOUNDATION_TRUST, <<>>) :
     ts \in Timestamps, w \in Works \cup {0}}

\* the handshake of a peer that keeps to the protocol
RelayHandshakes ==
  {[command |-> "COMMAND_HANDSHAKE", isResponse |-> FALSE, needReply |-> TRUE,
    network_id |-> 1, version |-> 1, peer_id |-> 2, my_port |-> 0, payload |-> "state_normal"]}

NewBlockNotification == [command |-> "NOTIFY_NEW_BLOCK", isResponse |-> FALSE, needReply |-> FALSE]

\* the payload handler on NOTIFY_NEW_BLOCK, after the engine's addNewBlock
\* (r) on the block bl: a failed verification ends the connection with a
\* fail, a block added to the main chain is relayed to the other connections
handle_notify_new_block(connections, id, bl, r) ==
  LET ctx == readCommand(connections[id])
  IN IF r.bvc.m_verification_failed
     THEN [m_connections |->
             [connections EXCEPT ![id] =
                [drop_connection(ctx, TRUE) EXCEPT
                   !.failedAt = IF bl.work = 0 /\ @ = 0 THEN ctx.commands ELSE @]],
           push |-> <<>>]
     ELSE IF r.bvc.m_added_to_main_chain
     THEN relay_notify_to_all([connections EXCEPT ![id] = ctx], <<>>, SmallMessage, {id})
     ELSE [m_connections |-> [connections EXCEPT ![id] = ctx], push |-> <<>>]

\* connectionHandler from a block read to its next wait
connectionHandlerBlock(connections, id, bl, r) ==
  LET handled == handle_notify_new_block(connections, id, bl, r)
      run == connectionHandlerHandled(Run(handled.m_connections[id], handled.push, EmptyMap),
                                      NewBlockNotification)
  IN [m_connections |-> [handled.m_connections EXCEPT ![id] = run.ctx], push |-> run.push]

InitRelay == Holds(GenesisSt)

\* a peer connects
AcceptRelayConnection == Accepts(FreshIdsOf(MaxRelayOpen))

\* connectionHandler reads the handshake of the peer
HandlerReadsHandshake(id) ==
  /\ HandlerAt(id, "readCommand")
  /\ HandlerReadsOf(id, RelayHandshakes)

\* connectionHandler reads a block of the peer
HandlerReadsBlock(id) ==
  /\ HandlerAt(id, "readCommand")
  /\ ~m_connections[id].interrupted
  /\ m_connections[id].commands < MaxCommands
  /\ CanPush(DOMAIN m_connections)
  /\ HeldBlocks < MaxRelayBlocks
  /\ \E bl \in RelayBlocks :
       \E r \in AddNewBlockOutcomes(addNewBlock(Cur(NoG), bl), bl) :
         LET handled == connectionHandlerBlock(m_connections, id, bl, r)
         IN /\ ~r.St.g.wild
            /\ InstallSt(r.St)
            /\ m_connections' = handled.m_connections
            /\ last' = NodeReport("connectionHandler", id, handled.push)
            /\ panicked' = (panicked \/ r.St.g.rollback = "failed")
            /\ UNCHANGED <<callerVars, lockers, walletVars, systemVars, clock, m_peerlist, m_host_fails_score,
                           erasedConnections>>

NextRelay ==
  \/ AcceptRelayConnection
  \/ \E id \in ConnectionIds :
       \/ HandlerReadsHandshake(id)
       \/ HandlerReadsBlock(id)
       \/ HandlerReadsEnd(id)
       \/ HandlerErases(id)
       \/ WriterPops(id)
       \/ WriterSends(id)
       \/ WriterInterrupted(id)

SpecRelay == InitRelay /\ [][NextRelay]_vars

\* C28: a connection that sent a block without proof of work is in
\* shutdown, its handler has left its loop and has handled no command after
\* that block.
C28_NoBlockAfterFailedProofOfWork ==
  \A id \in DOMAIN m_connections :
    LET ctx == m_connections[id]
    IN ctx.failedAt # 0 =>
         /\ ctx.m_state = "state_shutdown"
         /\ ctx.handler = "wait"
         /\ ctx.commands = ctx.failedAt

C28_Witness ==
  /\ Len(m_blocks) > 1
  /\ \E id \in DOMAIN m_connections :
       /\ m_connections[id].failedAt = 2
       /\ m_connections[id].peerId # 0
  /\ erasedConnections # <<>>

\* C29: the address of a connection that was dropped for a block that
\* failed verification has a fail score, of at least one.
C29_FailScoreCounted ==
  \A id \in DOMAIN m_connections :
    m_connections[id].failedAt # 0 =>
      /\ m_connections[id].m_remote_ip \in DOMAIN m_host_fails_score
      /\ m_host_fails_score[m_connections[id].m_remote_ip] >= 1

(***************************************************************************)
(* The sparse chain of the engine and the short history of the             *)
(* synchronizer.                                                           *)
(***************************************************************************)
\* the blocks of the main chain, of an alternative chain and of the chain a
\* synchronizer holds
MaxSparseMain == 10
MaxSparseAlt == 5
MaxHistory == 30

\* the entries of container (the first is the genesis block) at the places
\* sparseChainEnd - offset, sparseChainEnd - 2 * offset, ...
RECURSIVE SparseEntries(_, _, _)
SparseEntries(container, sparseChainEnd, offset) ==
  IF offset >= sparseChainEnd THEN <<>>
  ELSE <<container[sparseChainEnd - offset]>> \o SparseEntries(container, sparseChainEnd, 2 * offset)

\* BlockIndex::buildSparseChain: the start block, the blocks 1, 2, 4, 8, ...
\* before it, and the genesis block
buildSparseChain(container, startBlockId) ==
  LET sparseChainEnd == CHOOSE i \in DOMAIN container : container[i] = startBlockId
      result == <<container[sparseChainEnd]>> \o SparseEntries(container, sparseChainEnd, 1)
  IN IF Last(result) # container[1] THEN Append(result, container[1]) ELSE result

\* the first loop of doBuildSparseChain: the alternative chain from it back
\* to the main chain, and the block of the main chain it stands on
RECURSIVE AlternativeChainFrom(_, _, _)
AlternativeChainFrom(alternative_chains, it, alternativeChain) ==
  IF it \notin DOMAIN alternative_chains
  THEN [alternativeChain |-> alternativeChain, blockchainAncestor |-> it]
  ELSE AlternativeChainFrom(alternative_chains, alternative_chains[it].bl.previousBlockHash,
                            Append(alternativeChain, it))

\* the second loop of doBuildSparseChain, from i on
RECURSIVE SparseAlternativeChain(_, _)
SparseAlternativeChain(alternativeChain, i) ==
  IF i <= Len(alternativeChain)
  THEN <<alternativeChain[i]>> \o SparseAlternativeChain(alternativeChain, i * 2)
  ELSE <<>>

\* Blockchain::doBuildSparseChain
doBuildSparseChain(St, startBlockId) ==
  IF hasBlock(St.m_blockIndex, startBlockId)
  THEN buildSparseChain(St.m_blockIndex, startBlockId)
  ELSE LET alt == AlternativeChainFrom(St.m_alternative_chains, startBlockId, <<>>)
       IN SparseAlternativeChain(alt.alternativeChain, 1)
            \o buildSparseChain(St.m_blockIndex, alt.blockchainAncestor)

\* the loop of getShortHistory
RECURSIVE ShortHistoryLoop(_, _, _, _, _, _, _)
ShortHistoryLoop(m_blockchain, sz, history, i, current_multiplier, current_back_offset, genesis_included) ==
  IF current_back_offset < sz
  THEN ShortHistoryLoop(m_blockchain, sz,
         Append(history, m_blockchain[sz - current_back_offset + 1]),
         i + 1,
         IF i < 10 THEN current_multiplier ELSE current_multiplier * 2,
         IF i < 10 THEN current_back_offset + 1 ELSE current_back_offset + current_multiplier * 2,
         genesis_included \/ sz - current_back_offset = 0)
  ELSE [history |-> history, genesis_included |-> genesis_included]

\* getShortHistory that lists the genesis block only when the loop reached it
getShortHistoryOfLoop(m_blockchain, localHeight) ==
  LET sz == Min(Len(m_blockchain), localHeight + 1)
  IN IF sz = 0 THEN <<>>
     ELSE ShortHistoryLoop(m_blockchain, sz, <<>>, 0, 1, 1, FALSE).history

\* SynchronizationState::getShortHistory
getShortHistory(m_blockchain, localHeight) ==
  LET sz == Min(Len(m_blockchain), localHeight + 1)
  IN IF sz = 0 THEN <<>>
     ELSE LET loop == ShortHistoryLoop(m_blockchain, sz, <<>>, 0, 1, 1, FALSE)
          IN IF ~loop.genesis_included THEN Append(loop.history, m_blockchain[1])
             ELSE loop.history

\* the alternative block number n of a chain that leaves the main chain
\* after the block at height fork
AlternativeId(n) == <<"alternative", n>>
AlternativeChains(fork, length) ==
  [id \in {AlternativeId(n) : n \in 1..length} |->
     [bl |-> [previousBlockHash |->
                IF id = AlternativeId(1) THEN <<"block", fork>> ELSE AlternativeId(id[2] - 1)]]]

\* the chain that ends with the block start: its blocks from the genesis block on
ChainTo(main, fork, start) ==
  IF start[1] = "block" THEN BlockIndexOfLength(start[2] + 1)
  ELSE BlockIndexOfLength(fork + 1) \o [n \in 1..start[2] |-> AlternativeId(n)]

\* the back-offsets, from the end of chain, of the blocks of a locator
BackOffsets(locator, chain) ==
  [k \in DOMAIN locator |-> Len(chain) - (CHOOSE i \in DOMAIN chain : chain[i] = locator[k])]

InitSparse == Holds(GenesisSt)

\* the engine is asked for the sparse chain from a block of its main chain
\* or of an alternative chain
BuildSparseChain ==
  /\ \E main \in 1..MaxSparseMain, length \in 0..MaxSparseAlt :
       \E fork \in 0..(main - 1) :
         \E start \in {<<"block", h>> : h \in 0..(main - 1)} \cup {AlternativeId(n) : n \in 1..length} :
           LET St == [m_blockIndex |-> BlockIndexOfLength(main),
                      m_alternative_chains |-> AlternativeChains(fork, length)]
           IN last' = [op |-> "doBuildSparseChain", start |-> start,
                       size |-> main, alternative |-> length,
                       chain |-> ChainTo(main, fork, start),
                       locator |-> doBuildSparseChain(St, start)]
  /\ UNCHANGED <<engineVars, panicked, callerVars, lockers, walletVars, systemVars, nodeVars>>

\* the synchronizer is asked for its short history
GetShortHistory ==
  /\ \E size \in 1..MaxHistory, localHeight \in 0..MaxHistory :
       last' = [op |-> "getShortHistory", start |-> <<"block", Min(size, localHeight + 1) - 1>>,
                size |-> size, alternative |-> 0,
                chain |-> BlockIndexOfLength(Min(size, localHeight + 1)),
                locator |-> getShortHistory(BlockIndexOfLength(size), localHeight)]
  /\ UNCHANGED <<engineVars, panicked, callerVars, lockers, walletVars, systemVars, nodeVars>>

NextSparse == BuildSparseChain \/ GetShortHistory

SpecSparse == InitSparse /\ [][NextSparse]_vars

\* the back-offsets 1, 2, 4, ... from offset on that stay before the last
\* block of a chain of n blocks
RECURSIVE DoublingFrom(_, _)
DoublingFrom(offset, n) ==
  IF offset >= n - 1 THEN <<>> ELSE <<offset>> \o DoublingFrom(2 * offset, n)

\* the back-offsets 0, 1, 2, 4, 8, ... and that of the genesis block, for a
\* chain of n blocks
DoublingOffsets(n) ==
  IF n = 0 THEN <<>>
  ELSE IF n = 1 THEN <<0>>
  ELSE <<0>> \o DoublingFrom(1, n) \o <<n - 1>>

IsLocatorReport == "locator" \in DOMAIN last

\* C30: the locator of a chain lists the blocks at the back-offsets 0, 1,
\* 2, 4, 8, ... from its last block and then the genesis block, once, for a
\* start block of the main chain, for one of an alternative chain and for
\* the short history of the synchronizer.
C30_DoublingBackOffsets ==
  IsLocatorReport => BackOffsets(last.locator, last.chain) = DoublingOffsets(Len(last.chain))

\* the back-offsets of the short history of a chain of n blocks: the first
\* eleven blocks, then the blocks at 12, 16, 24, 40, ..., then the genesis block
ShortHistoryOffsets(n) ==
  {o \in 0..(n - 1) : o <= 10 \/ \E k \in 2..n : o = 8 + 2^k} \cup {n - 1}

\* the back-offsets of the sparse chain from the alternative block number
\* length on a main chain that it leaves after height fork: the blocks 0, 1,
\* 3, 7, ... back in the alternative chain, then the locator of the main
\* chain from the block at height fork
AlternativeOffsets(fork, length) ==
  {o \in 0..(length - 1) : \E k \in 0..length : o = 2^k - 1}
    \cup {length + o : o \in Range(DoublingOffsets(fork + 1))}

\* C30 amended: a locator starts with the last block of its chain, goes
\* back block by block without repetition and ends with the genesis block,
\* listed once. From a block of the main chain the engine lists the
\* back-offsets 0, 1, 2, 4, 8, ...; from an alternative block it lists the
\* alternative blocks at 0, 1, 3, 7, ... and then the locator of the main
\* chain from the block the alternative chain stands on; the short history
\* lists the first eleven blocks and then the back-offsets 12, 16, 24, 40, ...
C30_LocatorEndsWithGenesis ==
  IsLocatorReport =>
    LET offsets == BackOffsets(last.locator, last.chain)
        n == Len(last.chain)
    IN /\ n = 0 => offsets = <<>>
       /\ n > 0 => offsets # <<>> /\ offsets[1] = 0 /\ Last(offsets) = n - 1
       /\ \A i, j \in DOMAIN offsets : i < j => offsets[i] < offsets[j]
       /\ Range(last.locator) \subseteq Range(last.chain)
       /\ Range(offsets) =
            IF last.op = "getShortHistory" THEN ShortHistoryOffsets(n)
            ELSE IF last.start[1] = "block" THEN Range(DoublingOffsets(n))
            ELSE AlternativeOffsets(n - last.start[2] - 1, last.start[2])

C30_Witness ==
  /\ IsLocatorReport
  /\ last.op = "getShortHistory"
  /\ 16 \in Range(BackOffsets(last.locator, last.chain))
  /\ Len(last.chain) - 1 \notin {16, 24}

(***************************************************************************)
(* The priority order of the transaction pool.                             *)
(***************************************************************************)
\* the values of a machine word: fees and sizes are below Word, as those of
\* the program are below 2^64
Word == 4
MaxReceiveTime == 1

\* mul128 that keeps the low word of the product only
mul128LowWord(multiplier, multiplicand) ==
  [hi |-> 0, lo |-> (multiplier * multiplicand) % Word]

\* mul128: the product of two words, as its high and its low word
mul128(multiplier, multiplicand) ==
  [hi |-> (multiplier * multiplicand) \div Word, lo |-> (multiplier * multiplicand) % Word]

\* the products that TransactionPriorityComparator compares
PriorityProducts(lhs, rhs) ==
  [lhs |-> mul128(lhs.fee, rhs.blobSize), rhs |-> mul128(rhs.fee, lhs.blobSize)]

\* tx_memory_pool::TransactionPriorityComparator: lhs comes before rhs
TransactionPriorityComparator(lhs, rhs) ==
  LET p == PriorityProducts(lhs, rhs)
      lhs_hi == p.lhs.hi
      lhs_lo == p.lhs.lo
      rhs_hi == p.rhs.hi
      rhs_lo == p.rhs.lo
  IN \/ lhs_hi > rhs_hi
     \/ lhs_hi = rhs_hi /\ lhs_lo > rhs_lo
     \/ lhs_hi = rhs_hi /\ lhs_lo = rhs_lo /\ lhs.blobSize < rhs.blobSize
     \/ /\ lhs_hi = rhs_hi /\ lhs_lo = rhs_lo /\ lhs.blobSize = rhs.blobSize
        /\ lhs.receiveTime < rhs.receiveTime

\* the transactions of a pool, as far as the fee index reads them
TransactionDetailsSet ==
  [fee : 0..(Word - 1), blobSize : 1..(Word - 1), receiveTime : 0..MaxReceiveTime]

InitPriority == Holds(GenesisSt)

\* the transactions that were compared last, and any before the first comparison
ComparedLast(name) ==
  IF last.op = "priority" THEN {last[name]} ELSE TransactionDetailsSet

\* the fee index compares a transaction with the two it compared last, and
\* these with each other
ComparePriorities ==
  /\ \E a \in ComparedLast("b"), b \in ComparedLast("c"), c \in TransactionDetailsSet :
       last' = [op |-> "priority", a |-> a, b |-> b, c |-> c,
                ab |-> TransactionPriorityComparator(a, b),
                ba |-> TransactionPriorityComparator(b, a),
                bc |-> TransactionPriorityComparator(b, c),
                cb |-> TransactionPriorityComparator(c, b),
                ac |-> TransactionPriorityComparator(a, c),
                ca |-> TransactionPriorityComparator(c, a),
                aa |-> TransactionPriorityComparator(a, a)]
  /\ UNCHANGED <<engineVars, panicked, callerVars, lockers, walletVars, systemVars, nodeVars>>

NextPriority == ComparePriorities

SpecPriority == InitPriority /\ [][NextPriority]_vars

\* a comes before b by fee per byte, then by size, then by receive time
PriorityBefore(a, b) ==
  \/ a.fee * b.blobSize > b.fee * a.blobSize
  \/ /\ a.fee * b.blobSize = b.fee * a.blobSize
     /\ \/ a.blobSize < b.blobSize
        \/ a.blobSize = b.blobSize /\ a.receiveTime < b.receiveTime

\* C31: the priority order of the pool is a strict weak order (irreflexive,
\* asymmetric, transitive, with transitive equivalence) in which a comes
\* before b whenever a.fee * b.size > b.fee * a.size, the products compared
\* in full, and in which equal products are ordered by smaller size first
\* and then by earlier receive time.
C31_PoolPriorityOrder ==
  last.op = "priority" =>
    /\ ~last.aa
    /\ ~(last.ab /\ last.ba)
    /\ last.ab /\ last.bc => last.ac
    /\ (~last.ab /\ ~last.ba /\ ~last.bc /\ ~last.cb) => (~last.ac /\ ~last.ca)
    /\ last.ab = PriorityBefore(last.a, last.b)
    /\ last.bc = PriorityBefore(last.b, last.c)
    /\ last.ca = PriorityBefore(last.c, last.a)

\* two transactions whose products differ in the high word only, and two of
\* equal fee per byte and size that the receive time orders
C31_Witness ==
  /\ last.op = "priority"
  /\ last.a.fee * last.b.blobSize >= Word + last.b.fee * last.a.blobSize
  /\ (last.a.fee * last.b.blobSize) % Word < (last.b.fee * last.a.blobSize) % Word
  /\ last.ab
  /\ last.b.fee * last.c.blobSize = last.c.fee * last.b.blobSize
  /\ last.b.blobSize = last.c.blobSize
  /\ last.bc

(***************************************************************************)
(* The stores of the engine across a push and a pop.                       *)
(***************************************************************************)
\* C32: a call of addNewBlock that rejects its block without attempting a
\* chain switch (the rejected push onto the main chain is such a call) leaves
\* the block store, the transaction map, the spent keys, the outputs by
\* amount and the multisignature outputs with their used flags as they were
\* before the call.
C32_RejectedPushKeepsStores ==
  [][(last'.op = "addNewBlock" /\ ~last'.ok /\ last'.switching = "none")
       => /\ m_blocks' = m_blocks
          /\ m_transactionMap' = m_transactionMap
          /\ m_spent_keys' = m_spent_keys
          /\ m_outputs' = m_outputs
          /\ m_multisignatureOutputs' = m_multisignatureOutputs]_vars

\* the blocks of the main chain besides the genesis block
MaxPushPopBlocks == 2

\* the stores of the engine that a push writes and a pop clears
Stores(St) ==
  [m_blocks |-> St.m_blocks, m_blockIndex |-> St.m_blockIndex,
   m_transactionMap |-> St.m_transactionMap, m_spent_keys |-> St.m_spent_keys,
   m_outputs |-> St.m_outputs, m_multisignatureOutputs |-> St.m_multisignatureOutputs,
   m_depositIndex |-> St.m_depositIndex]

\* the candidate blocks on the tip of the main chain
TipCandidates == {bl \in Candidates : bl.previousBlockHash = Last(m_blockIndex)}

InitPushPop == Holds(GenesisSt)

\* a block arrives on the tip (Blockchain::addNewBlock, pushBlock)
PushBlock ==
  /\ Len(m_blocks) <= MaxPushPopBlocks
  /\ \E bl \in TipCandidates :
       \E r \in AddNewBlockOutcomes(addNewBlock(Cur(NoG), bl), bl) :
         /\ ~r.St.g.wild
         /\ Install(r.St)
         /\ last' = [op |-> "pushBlock", ok |-> r.ok, before |-> Stores(Cur(NoG)),
                     transactions |-> Len(bl.transactionHashes)]
  /\ UNCHANGED panicked

\* the block that was pushed last is popped (Blockchain::popBlock)
PopBlock ==
  /\ last.op = "pushBlock"
  /\ last.ok
  /\ Install(popBlock(Cur(NoG)))
  /\ last' = [last EXCEPT !.op = "popBlock"]
  /\ UNCHANGED panicked

\* a transaction arrives at the pool
AddPoolTx ==
  /\ \E n \in TxIds :
       LET id == TxHash(n)
       IN /\ id \notin DOMAIN m_transactionMap
          /\ Install(add_tx(Cur(NoG), id, FALSE).St)
  /\ last' = [op |-> "addTx", ok |-> TRUE, before |-> Stores(Cur(NoG)), transactions |-> 0]
  /\ UNCHANGED panicked

NextPushPop == PushBlock \/ PopBlock \/ AddPoolTx

SpecPushPop == InitPushPop /\ [][NextPushPop]_vars

\* C33: after a block was pushed onto the main chain and popped again, the
\* block store, the hash index, the transaction map, the spent keys, the
\* outputs by amount, the multisignature outputs with their used flags and
\* the deposit index are what they were before the push.
C33_PushThenPopRestores ==
  last.op = "popBlock" => Stores(Cur(NoG)) = last.before

\* a block with listed transactions was pushed and popped, on a chain that
\* holds multisignature outputs
C33_Witness ==
  /\ last.op = "popBlock"
  /\ last.transactions > 0
  /\ Len(m_blocks) > 1
  /\ DOMAIN m_multisignatureOutputs # {}

C35_DepositIndexPerBlock ==
  Len(m_depositIndex) = Len(m_blocks)

(***************************************************************************)
(* The write queue and the write timeout of a connection.                  *)
(***************************************************************************)
\* C36: on every connection writeQueueSize is the sum of the sizes of the
\* messages in the write queue, after any calls of pushMessage and
\* popBuffer; it is 0 when the queue is empty.
C36_QueueSizeIsSumOfQueue ==
  \A id \in DOMAIN m_connections :
    m_connections[id].writeQueueSize = QueuedBytes(m_connections[id].writeQueue)

\* the sleeps of the timeout monitor in the life of a node with idle
\* connections, and those it takes in a row: one, or more than the timeout
MaxIdleClock == 28
IdleSleeps == {1, 13}

InitIdle == Holds(GenesisSt)

\* timeoutLoop wakes after its sleeps, whatever the connections do
TimeoutPass ==
  /\ \E sleeps \in IdleSleeps :
       /\ clock + sleeps <= MaxIdleClock
       /\ clock' = clock + sleeps
       /\ m_connections' = timeoutLoop(m_connections, Now(clock + sleeps))
       /\ last' = [op |-> "timeoutLoop", id |-> 0, push |-> <<>>, sleeps |-> sleeps]
  /\ UNCHANGED <<engineVars, panicked, callerVars, lockers, walletVars, systemVars, m_peerlist, m_host_fails_score,
                 erasedConnections>>

NextIdle ==
  \/ AcceptConnection
  \/ RelayNotify
  \/ TimeoutPass
  \/ \E id \in ConnectionIds :
       \/ HandlerReadsHandshake(id)
       \/ HandlerReadsEnd(id)
       \/ HandlerInterrupted(id)
       \/ HandlerErases(id)
       \/ WriterPops(id)
       \/ WriterSends(id)
       \/ WriterInterrupted(id)

SpecIdle == InitIdle /\ [][NextIdle]_vars

\* the write task of the connection waits in popBuffer on an empty queue
WaitsOnEmptyQueue(ctx) ==
  ctx.writer = "popBuffer" /\ ctx.writeQueue = <<>> /\ ~ctx.stopped /\ ~ctx.writeInterrupted

\* C37: a pass of the timeout monitor never interrupts a connection whose
\* write task waits on an empty queue, however long it has waited; the
\* start time of a write is set while a batch taken from the queue is being
\* written and is none while the task waits.
C37_IdleConnectionNotTimedOut ==
  [][
     /\ \A id \in DOMAIN m_connections' :
          WaitsOnEmptyQueue(m_connections'[id])
            => m_connections'[id].writeOperationStartTime = TimePoint
     /\ \A id \in DOMAIN m_connections' :
          m_connections'[id].writer = "send"
            => m_connections'[id].writeOperationStartTime # TimePoint
     /\ last'.op = "timeoutLoop" =>
          (\A id \in DOMAIN m_connections :
             WaitsOnEmptyQueue(m_connections[id])
               => (/\ id \in DOMAIN m_connections'
                   /\ m_connections'[id] = m_connections[id]))
  ]_vars

\* the monitor has passed after more sleeps than the timeout over a
\* connection that has written messages and waits for more
C37_Witness ==
  /\ last.op = "timeoutLoop"
  /\ last.sleeps * TimeoutLoopSleep > P2P_DEFAULT_INVOKE_TIMEOUT
  /\ \E id \in DOMAIN m_connections :
       /\ WaitsOnEmptyQueue(m_connections[id])
       /\ m_connections[id].sent # <<>>
       /\ ~m_connections[id].interrupted

(***************************************************************************)
(* The wallet: its state across init, load, save and shutdown.             *)
(***************************************************************************)
\* the calls of the wallet that one behaviour makes
MaxWalletCalls == 4

\* what a call of the wallet gives: the wallet after it, and whether it threw
WalletOutcome(w, threw) == [w |-> w, threw |-> threw]

\* WalletLegacy::initSync
initSync(w) == [w EXCEPT !.m_state = "INITIALIZED"]

\* WalletLegacy::initAndGenerate and WalletLegacy::initWithKeys: the keys are made and
\* initCompleted is notified before the call returns
initAndGenerate(w) ==
  IF w.m_state # "NOT_INITIALIZED"
  THEN WalletOutcome(w, TRUE)
  ELSE WalletOutcome([initSync(w) EXCEPT !.acceptedInits = @ + 1, !.initCompleted = @ + 1],
                     FALSE)

\* WalletLegacy::initAndLoad: the load itself runs in a thread of its own
initAndLoad(w) ==
  IF w.m_state # "NOT_INITIALIZED"
  THEN WalletOutcome(w, TRUE)
  ELSE WalletOutcome([w EXCEPT !.m_state = "LOADING",
                               !.m_asyncContextCounter = @ + 1,
                               !.loaders = @ + 1,
                               !.acceptedInits = @ + 1],
                     FALSE)

\* WalletLegacy::doLoad when a failure leaves the wallet in LOADING
doLoadKeepsLoading(w, ok) ==
  [w EXCEPT !.m_state = IF ok THEN "INITIALIZED" ELSE @,
            !.initCompleted = @ + 1,
            !.loaders = @ - 1,
            !.m_asyncContextCounter = @ - 1]

\* WalletLegacy::doLoad: ok is whether the wallet file could be read
doLoad(w, ok) ==
  [w EXCEPT !.m_state = IF ok THEN initSync(w).m_state ELSE "NOT_INITIALIZED",
            !.initCompleted = @ + 1,
            !.loaders = @ - 1,
            !.m_asyncContextCounter = @ - 1]

\* WalletLegacy::save up to its test of m_isStopping, which is read without the mutex
saveChecks(w) ==
  IF w.m_isStopping
  THEN WalletOutcome(w, FALSE)
  ELSE WalletOutcome([w EXCEPT !.save = "checked"], FALSE)

\* WalletLegacy::save under m_cacheMutex
saveLocks(w) ==
  IF w.m_state # "INITIALIZED"
  THEN WalletOutcome([w EXCEPT !.save = "idle"], TRUE)
  ELSE WalletOutcome([w EXCEPT !.m_state = "SAVING", !.save = "spawning",
                               !.acceptedSaves = @ + 1],
                     FALSE)

\* WalletLegacy::save after the mutex: the thread of doSave is started
saveSpawns(w) ==
  [w EXCEPT !.save = "idle", !.m_asyncContextCounter = @ + 1, !.savers = @ + 1]

\* WalletLegacy::doSave: ok is whether the wallet could be serialized and the
\* synchronizer started again; both ways end in INITIALIZED and one notification
doSave(w, ok) ==
  [w EXCEPT !.m_state = "INITIALIZED",
            !.saveCompleted = @ + 1,
            !.savers = @ - 1,
            !.m_asyncContextCounter = @ - 1]

\* WalletLegacy::shutdown up to the end of its first block under m_cacheMutex
shutdownLocks(w) ==
  IF w.m_isStopping
  THEN WalletOutcome(w, TRUE)
  ELSE IF w.m_state # "INITIALIZED"
       THEN WalletOutcome([w EXCEPT !.m_isStopping = TRUE], TRUE)
       ELSE WalletOutcome([w EXCEPT !.m_isStopping = TRUE, !.shutdown = "waiting"], FALSE)

\* WalletLegacy::shutdown after waitAsyncContextsFinish
shutdownFinishes(w) ==
  [w EXCEPT !.m_isStopping = FALSE, !.m_state = "NOT_INITIALIZED", !.shutdown = "idle"]

\* what a step of the wallet reports
WalletReport(op, threw, ok) ==
  [op |-> op, threw |-> threw, ok |-> ok,
   before |-> [m_state |-> wallet.m_state, m_isStopping |-> wallet.m_isStopping]]

\* a call: the wallet after it and its report
WalletCalled(op, r) ==
  /\ wallet.calls < MaxWalletCalls
  /\ wallet' = [r.w EXCEPT !.calls = @ + 1]
  /\ last' = WalletReport(op, r.threw, ~r.threw)
  /\ UNCHANGED <<engineVars, panicked, callerVars, lockers, systemVars, nodeVars>>

\* a step inside a call or inside a thread of the wallet
WalletStepped(op, w, threw, ok) ==
  /\ wallet' = w
  /\ last' = WalletReport(op, threw, ok)
  /\ UNCHANGED <<engineVars, panicked, callerVars, lockers, systemVars, nodeVars>>

InitWallet == Holds(GenesisSt)

InitAndGenerate == WalletCalled("initAndGenerate", initAndGenerate(wallet))

InitAndLoad == WalletCalled("initAndLoad", initAndLoad(wallet))

DoLoad ==
  /\ wallet.loaders > 0
  /\ \E ok \in BOOLEAN : WalletStepped("doLoad", doLoad(wallet, ok), FALSE, ok)

SaveChecks ==
  /\ wallet.save = "idle"
  /\ WalletCalled("save", saveChecks(wallet))

SaveLocks ==
  /\ wallet.save = "checked"
  /\ WalletStepped("saveLocks", saveLocks(wallet).w, saveLocks(wallet).threw,
                   ~saveLocks(wallet).threw)

SaveSpawns ==
  /\ wallet.save = "spawning"
  /\ WalletStepped("saveSpawns", saveSpawns(wallet), FALSE, TRUE)

DoSave ==
  /\ wallet.savers > 0
  /\ \E ok \in BOOLEAN : WalletStepped("doSave", doSave(wallet, ok), FALSE, ok)

ShutdownLocks ==
  /\ wallet.shutdown = "idle"
  /\ WalletCalled("shutdown", shutdownLocks(wallet))

ShutdownFinishes ==
  /\ wallet.shutdown = "waiting"
  /\ wallet.m_asyncContextCounter = 0
  /\ WalletStepped("shutdownFinishes", shutdownFinishes(wallet), FALSE, TRUE)

NextWallet ==
  \/ InitAndGenerate
  \/ InitAndLoad
  \/ DoLoad
  \/ SaveChecks
  \/ SaveLocks
  \/ SaveSpawns
  \/ DoSave
  \/ ShutdownLocks
  \/ ShutdownFinishes

SpecWallet == InitWallet /\ [][NextWallet]_vars

\* a started thread of the wallet runs, and a thread in save leaves the mutex
SpecWalletFair ==
  /\ InitWallet
  /\ [][NextWallet]_vars
  /\ WF_vars(SaveSpawns)
  /\ WF_vars(DoSave)
  /\ WF_vars(DoLoad)

\* the saves and the loads that were accepted and have not notified yet
PendingSaves == (IF wallet.save = "spawning" THEN 1 ELSE 0) + wallet.savers

\* every accepted save and every accepted init has notified once, or is still running;
\* a save ends in INITIALIZED, a load in INITIALIZED or, when it failed, NOT_INITIALIZED
OneNotificationEach ==
  /\ wallet.saveCompleted + PendingSaves = wallet.acceptedSaves
  /\ wallet.initCompleted + wallet.loaders = wallet.acceptedInits
  /\ last.op = "saveLocks" /\ ~last.threw
       => last.before.m_state = "INITIALIZED" /\ wallet.m_state = "SAVING"
  /\ last.op = "initAndLoad" /\ ~last.threw
       => last.before.m_state = "NOT_INITIALIZED" /\ wallet.m_state = "LOADING"
  /\ last.op = "doSave" => wallet.m_state = "INITIALIZED"
  /\ last.op = "doLoad"
       => wallet.m_state = (IF last.ok THEN "INITIALIZED" ELSE "NOT_INITIALIZED")

\* C38: every accepted save moves the wallet from INITIALIZED to SAVING and the wallet
\* is INITIALIZED again later, with one saveCompleted notification for the save, whether
\* the serialization succeeded or not; every accepted initAndLoad moves the wallet from
\* NOT_INITIALIZED to LOADING and ends in INITIALIZED when the load succeeded and in
\* NOT_INITIALIZED when it failed, with one initCompleted notification
C38_SaveAndLoadComplete ==
  /\ []OneNotificationEach
  /\ (wallet.m_state = "SAVING") ~> (wallet.m_state = "INITIALIZED")
  /\ (wallet.m_state = "LOADING") ~> (wallet.m_state \in {"INITIALIZED", "NOT_INITIALIZED"})
  /\ (PendingSaves > 0) ~> (wallet.saveCompleted = wallet.acceptedSaves)
  /\ (wallet.loaders > 0) ~> (wallet.initCompleted = wallet.acceptedInits)

\* a save failed and a load failed, and each notified once
C38_Witness ==
  /\ last.op = "doSave"
  /\ ~last.ok
  /\ wallet.saveCompleted = 1
  /\ wallet.acceptedSaves = 1
  /\ wallet.initCompleted = 2
  /\ wallet.acceptedInits = 2
  /\ wallet.m_state = "INITIALIZED"

\* C39: a call of init, save or shutdown that throws because of the state of the wallet
\* leaves m_state and m_isStopping as they were
C39_RejectedCallKeepsState ==
  [][
     (last'.op \in {"initAndGenerate", "initAndLoad", "saveLocks", "shutdown"} /\ last'.threw)
       => (wallet'.m_state = wallet.m_state /\ wallet'.m_isStopping = wallet.m_isStopping)
  ]_vars

(***************************************************************************)
(* The locks on an event.                                                  *)
(***************************************************************************)
\* Event::set: the contexts that wait for the event can run again
set(e) == [e EXCEPT !.state = TRUE]

\* Event::clear
clear(e) == [e EXCEPT !.state = FALSE]

\* the loop of a lock that passes a set event and leaves it set
LockLoopKeepsSet(e, p) ==
  IF e.state
  THEN [e EXCEPT !.pc[p] = "holding"]
  ELSE [e EXCEPT !.pc[p] = "waiting"]

\* while (!event.get()) { event.wait(); } event.clear(): a context of the dispatcher
\* runs until it waits, so the test and the clear are one step; a context that finds
\* the event clear waits in Event::wait
LockLoop(e, p) ==
  IF e.state
  THEN [clear(e) EXCEPT !.pc[p] = "holding"]
  ELSE [e EXCEPT !.pc[p] = "waiting"]

\* EventLock::EventLock, in context p
EventLock(e, p) == LockLoop(e, p)

\* EventLock::~EventLock
DestroyEventLock(e, p) == [set(e) EXCEPT !.pc[p] = "idle"]

\* RemoteEventLock::RemoteEventLock, in thread p: the procedure is handed to the
\* dispatcher and the thread waits for it on a condition variable
RemoteEventLock(e, p) == [e EXCEPT !.pc[p] = "spawned"]

\* the procedure of RemoteEventLock::RemoteEventLock in the dispatcher: when it has the
\* event it sets locked, and the constructor returns in the thread
RemoteEventLockProcedure(e, p) == LockLoop(e, p)

\* RemoteEventLock::~RemoteEventLock: the procedure that sets the event is handed to the
\* dispatcher and the destructor returns
DestroyRemoteEventLock(e, p) == [e EXCEPT !.pc[p] = "releasing"]

\* the procedure of RemoteEventLock::~RemoteEventLock in the dispatcher
DestroyRemoteEventLockProcedure(e, p) == [set(e) EXCEPT !.pc[p] = "idle"]

\* a step at the event: the event after it and its report
EventStepped(op, p, e) ==
  /\ event' = e
  /\ last' = [op |-> op, party |-> p, was |-> event.state]
  /\ UNCHANGED <<engineVars, panicked, callerVars, lockers, walletVars, nodeVars>>

InitEventLock == Holds(GenesisSt)

\* the owner of the event sets it before the event is used as a lock
OwnerSetsEvent ==
  /\ ~event.ready
  /\ EventStepped("set", "owner", [set(event) EXCEPT !.ready = TRUE])

\* a context constructs an EventLock, or runs again in the loop of the constructor
ContextLocks ==
  \E p \in Contexts :
    /\ event.ready
    /\ \/ event.pc[p] = "idle"
       \/ event.pc[p] = "waiting" /\ event.state
    /\ EventStepped("EventLock", p, EventLock(event, p))

ContextUnlocks ==
  \E p \in Contexts :
    /\ event.pc[p] = "holding"
    /\ EventStepped("~EventLock", p, DestroyEventLock(event, p))

ThreadLocks ==
  \E p \in RemoteThreads :
    /\ event.ready
    /\ event.pc[p] = "idle"
    /\ EventStepped("RemoteEventLock", p, RemoteEventLock(event, p))

\* the dispatcher runs the procedure of a RemoteEventLock, or runs it again in its loop
LockProcedureRuns ==
  \E p \in RemoteThreads :
    /\ \/ event.pc[p] = "spawned"
       \/ event.pc[p] = "waiting" /\ event.state
    /\ EventStepped("RemoteEventLock procedure", p, RemoteEventLockProcedure(event, p))

ThreadUnlocks ==
  \E p \in RemoteThreads :
    /\ event.pc[p] = "holding"
    /\ EventStepped("~RemoteEventLock", p, DestroyRemoteEventLock(event, p))

UnlockProcedureRuns ==
  \E p \in RemoteThreads :
    /\ event.pc[p] = "releasing"
    /\ EventStepped("~RemoteEventLock procedure", p, DestroyRemoteEventLockProcedure(event, p))

NextEventLock ==
  \/ OwnerSetsEvent
  \/ ContextLocks
  \/ ContextUnlocks
  \/ ThreadLocks
  \/ LockProcedureRuns
  \/ ThreadUnlocks
  \/ UnlockProcedureRuns

SpecEventLock == InitEventLock /\ [][NextEventLock]_vars

\* the parties that hold a lock on the event, and those whose lock is destroyed but
\* whose procedure has not set the event yet
Holders == {p \in DOMAIN event.pc : event.pc[p] = "holding"}
Releasing == {p \in DOMAIN event.pc : event.pc[p] = "releasing"}

\* C40: at most one context or thread holds an EventLock or a RemoteEventLock on the
\* event; the event is clear while the lock is held and until its release has set the
\* event; a lock is acquired only in a step that finds the event set and clears it; and
\* only the release of the lock sets the event again
C40_OneHolderOfEvent ==
  /\ [](/\ Cardinality(Holders \cup Releasing) <= 1
        /\ (Holders \cup Releasing # {}) => ~event.state)
  /\ [][
        /\ \A p \in DOMAIN event.pc :
             (event.pc[p] # "holding" /\ event'.pc[p] = "holding")
               => (event.state /\ ~event'.state)
        /\ (event.ready /\ ~event.state /\ event'.state)
             => (\E p \in Holders \cup Releasing : event'.pc[p] = "idle")
     ]_vars

\* a thread holds a RemoteEventLock while a context and another thread wait for the
\* event, after a context has held and released an EventLock
C40_Witness ==
  /\ \E p \in RemoteThreads : event.pc[p] = "holding"
  /\ \E p \in Contexts : event.pc[p] = "waiting"
  /\ \E p \in RemoteThreads : event.pc[p] = "waiting"
  /\ ~event.state
  /\ last.op = "RemoteEventLock procedure"
  /\ last.was

====
